---- MODULE Spec2Model ----
(***************************************************************************)
(* A model of advtraj/compute_trajectories.py: the cyclic labeller, the     *)
(* trajectory sequencer, the forward advection step, the bounding-box       *)
(* overlap test, the lineage matcher, the grid interpolator and the object  *)
(* declusterer.                                                             *)
(*                                                                          *)
(* Each component has its own state variable (a record) and its own         *)
(* specification; the variables of the other components stay Idle.          *)
(* Real-valued grid positions are fixed-point integers in units of          *)
(* 1/SCALE of a grid cell.                                                  *)
(***************************************************************************)
EXTENDS Integers, Sequences, FiniteSets, TLC

VARIABLES lab, seq, fwd, mat, box, itp, uns

vars == <<lab, seq, fwd, mat, box, itp, uns>>

Idle == [pc |-> "idle"]

----------------------------------------------------------------------------
(* Generic helpers                                                          *)

SetMin(S) == CHOOSE m \in S : \A e \in S : m <= e

SetMax(S) == CHOOSE m \in S : \A e \in S : m >= e

----------------------------------------------------------------------------
(* label_3D_cyclic                                                          *)

\* Bounds of the mask grid and of the number of True cells of a mask.
LNx == 3
LNy == 3
LNz == 2
MaxTrue == 5

LCells == (0 .. LNx - 1) \X (0 .. LNy - 1) \X (0 .. LNz - 1)

\* Position of a cell in the C-order (last axis fastest) scan of the array.
ScanIdx(c) == (c[1] * LNy + c[2]) * LNz + c[3]

AbsDiff(a, b) == IF a >= b THEN a - b ELSE b - a

\* Face adjacency of the default structuring element of ndimage.label
\* (no wrap-around).
FaceAdj(c, d) == AbsDiff(c[1], d[1]) + AbsDiff(c[2], d[2]) + AbsDiff(c[3], d[3]) = 1

RECURSIVE Grow(_, _)
Grow(S, mask) ==
    LET N == S \cup {d \in mask : \E c \in S : FaceAdj(c, d)}
    IN  IF N = S THEN S ELSE Grow(N, mask)

\* ndimage.label(mask): 0 is background, components are numbered 1..n in the
\* order in which the scan meets them.
NdLabel(mask) ==
    LET root == [c \in mask |-> SetMin({ScanIdx(d) : d \in Grow({c}, mask)})]
        roots == {root[c] : c \in mask}
    IN  [labels |-> [c \in LCells |->
                        IF c \in mask
                        THEN Cardinality({r \in roots : r <= root[c]})
                        ELSE 0],
         n |-> Cardinality(roots)]

\* A relabel that merges label j into i and leaves the later labels where
\* they are.
RelabelInPlace(labs, nobjs, i, j) ==
    [labs |-> [c \in LCells |-> IF labs[c] = j THEN i ELSE labs[c]],
     nobjs |-> nobjs - 1]

\* relabel(labs, nobjs, i, j): label j becomes i, every later label moves
\* down by one.
Relabel(labs, nobjs, i, j) ==
    [labs |-> [c \in LCells |->
                  IF labs[c] = j THEN i
                  ELSE IF labs[c] > j /\ labs[c] < nobjs THEN labs[c] - 1
                  ELSE labs[c]],
     nobjs |-> nobjs - 1]

\* np.where(labs == i)
PosOf(labs, i) == {c \in LCells : labs[c] = i}

\* The four calls of find_objects_at_edge: <<minflag, x_or_y, n>>, with the
\* axes numbered 1 (x) and 2 (y).
EdgePass(p) ==
    CASE p = 1 -> [minflag |-> TRUE,  ax |-> 1, n |-> LNx]
      [] p = 2 -> [minflag |-> FALSE, ax |-> 1, n |-> LNx]
      [] p = 3 -> [minflag |-> TRUE,  ax |-> 2, n |-> LNy]
      [] OTHER -> [minflag |-> FALSE, ax |-> 2, n |-> LNy]

OtherAx(ax) == 3 - ax

\* test1 / test2: the component touches coordinate 0 (lo) or n-1 (hi).
TouchesLo(pos, ax) == SetMin({c[ax] : c \in pos}) = 0

TouchesHi(pos, ax, n) == SetMax({c[ax] : c \in pos}) = n - 1

\* The two nested intersect1d tests: the sets of the other horizontal
\* coordinate intersect, and the sets of z intersect.
EdgeMatch(posi, posj, e) ==
    LET ilist == {c \in posi : c[e.ax] = (IF e.minflag THEN 0 ELSE e.n - 1)}
        jlist == {c \in posj : c[e.ax] = (IF e.minflag THEN e.n - 1 ELSE 0)}
    IN  /\ {c[OtherAx(e.ax)] : c \in ilist} \cap {c[OtherAx(e.ax)] : c \in jlist} # {}
        /\ {c[3] : c \in ilist} \cap {c[3] : c \in jlist} # {}

LabMasks == {m \in SUBSET LCells : Cardinality(m) <= MaxTrue}

\* A call of label_3D_cyclic before its first statement.
LabEntry(mask) ==
    [pc |-> "start", mask |-> mask, labs |-> [c \in LCells |-> 0],
     nobjs |-> 0, pass |-> 0, i |-> 0, j |-> 0, posi |-> {}, merges |-> 0]

\* One step of label_3D_cyclic from the state st.
\*   "start": labels, nobjects = ndimage.label(mask); labels -= 1
\*   "outer": the outer loop test "while i < (nobjs-2)" and test1, or the end
\*            of one find_objects_at_edge call
\*   "inner": the inner loop test "while j < (nobjs-1)" and its body
LabStep(st) ==
    LET e == EdgePass(st.pass)
    IN  IF st.pc = "start"
        THEN LET r == NdLabel(st.mask)
             IN  [st EXCEPT !.pc = "outer",
                            !.labs = [c \in LCells |-> r.labels[c] - 1],
                            !.nobjs = r.n, !.pass = 1, !.i = 0]
        ELSE IF st.pc = "outer" /\ st.i < st.nobjs - 2
        THEN LET posi == PosOf(st.labs, st.i)
                 test1 == IF e.minflag THEN TouchesLo(posi, e.ax)
                                       ELSE TouchesHi(posi, e.ax, e.n)
             IN  IF test1
                 THEN [st EXCEPT !.pc = "inner", !.posi = posi, !.j = st.i + 1]
                 ELSE [st EXCEPT !.i = st.i + 1]
        ELSE IF st.pc = "outer"
        THEN IF st.pass < 4
             THEN [st EXCEPT !.pass = st.pass + 1, !.i = 0]
             ELSE [st EXCEPT !.pc = "done"]
        ELSE IF st.j < st.nobjs - 1
        THEN LET posj == PosOf(st.labs, st.j)
                 test2 == IF e.minflag THEN TouchesHi(posj, e.ax, e.n)
                                       ELSE TouchesLo(posj, e.ax)
             IN  IF test2 /\ EdgeMatch(st.posi, posj, e)
                 THEN LET r == Relabel(st.labs, st.nobjs, st.i, st.j)
                      IN  [st EXCEPT !.labs = r.labs, !.nobjs = r.nobjs,
                                     !.j = st.j + 1, !.merges = st.merges + 1]
                 ELSE [st EXCEPT !.j = st.j + 1]
        ELSE [st EXCEPT !.pc = "outer", !.i = st.i + 1]

RECURSIVE LabRun(_)
\* The state in which the call returns.
LabRun(st) == IF st.pc = "done" THEN st ELSE LabRun(LabStep(st))

\* label_3D_cyclic(mask): the labels and nobjects it returns.
label_3D_cyclic(mask) ==
    LET st == LabRun(LabEntry(mask))
    IN  [labs |-> st.labs, nobjs |-> st.nobjs]

LabInit ==
    /\ lab \in {LabEntry(m) : m \in LabMasks}
    /\ seq = Idle /\ fwd = Idle /\ mat = Idle /\ box = Idle
    /\ itp = Idle /\ uns = Idle

\* labels, nobjects = ndimage.label(mask); labels -= 1
LabelPass ==
    /\ lab.pc = "start"
    /\ lab' = LabStep(lab)
    /\ UNCHANGED <<seq, fwd, mat, box, itp, uns>>

\* One evaluation of the outer loop test "while i < (nobjs-2)" and, inside
\* the loop, of test1.
OuterStep ==
    /\ lab.pc = "outer"
    /\ lab.i < lab.nobjs - 2
    /\ lab' = LabStep(lab)
    /\ UNCHANGED <<seq, fwd, mat, box, itp, uns>>

\* One evaluation of the inner loop test "while j < (nobjs-1)" and of its body.
InnerStep ==
    /\ lab.pc = "inner"
    /\ lab' = LabStep(lab)
    /\ UNCHANGED <<seq, fwd, mat, box, itp, uns>>

\* The outer loop of one find_objects_at_edge call ends: the next call
\* starts, or label_3D_cyclic returns.
NextPass ==
    /\ lab.pc = "outer"
    /\ ~(lab.i < lab.nobjs - 2)
    /\ lab' = LabStep(lab)
    /\ UNCHANGED <<seq, fwd, mat, box, itp, uns>>

LabNext == LabelPass \/ OuterStep \/ InnerStep \/ NextPass

SpecLabel == LabInit /\ [][LabNext]_vars

\* C1: on return of label_3D_cyclic, two True cells that are face-adjacent
\* across the periodic x boundary or across the periodic y boundary carry
\* the same label.
C1_PeriodicNeighboursShareLabel ==
    lab.pc = "done" =>
        \A c \in lab.mask, d \in lab.mask :
            (\/ (c[1] = 0 /\ d[1] = LNx - 1 /\ c[2] = d[2] /\ c[3] = d[3])
             \/ (c[2] = 0 /\ d[2] = LNy - 1 /\ c[1] = d[1] /\ c[3] = d[3]))
            => lab.labs[c] = lab.labs[d]

\* The cell c moved by s along axis ax, cyclically.
ShiftCell(c, ax, s) ==
    [k \in 1 .. 3 |-> IF k = ax THEN (c[k] + s) % (IF ax = 1 THEN LNx ELSE LNy) ELSE c[k]]

\* C13: for every cyclic shift s along x or along y, label_3D_cyclic returns
\* for the shifted mask the same object count as for the mask, and two cells
\* share a label exactly when the shifted cells share a label in the result
\* for the shifted mask.
C13_LabelsInvariantUnderCyclicShift ==
    lab.pc = "done" =>
        \A ax \in 1 .. 2 :
            \A s \in 1 .. (IF ax = 1 THEN LNx ELSE LNy) - 1 :
                LET r == label_3D_cyclic({ShiftCell(c, ax, s) : c \in lab.mask})
                IN  /\ r.nobjs = lab.nobjs
                    /\ \A c \in lab.mask, d \in lab.mask :
                          (lab.labs[c] = lab.labs[d])
                          <=> (r.labs[ShiftCell(c, ax, s)] = r.labs[ShiftCell(d, ax, s)])

\* Face adjacency on the periodic grid: the cells differ by one step along
\* one axis, and a step along x or y wraps around.
CyclicAdj(c, d) ==
    \/ c[2] = d[2] /\ c[3] = d[3] /\ c[1] # d[1]
          /\ (d[1] = (c[1] + 1) % LNx \/ c[1] = (d[1] + 1) % LNx)
    \/ c[1] = d[1] /\ c[3] = d[3] /\ c[2] # d[2]
          /\ (d[2] = (c[2] + 1) % LNy \/ c[2] = (d[2] + 1) % LNy)
    \/ c[1] = d[1] /\ c[2] = d[2] /\ AbsDiff(c[3], d[3]) = 1

RECURSIVE CyclicGrow(_, _)
\* The True cells joined to a cell of S by a path of adjacent True cells.
CyclicGrow(S, mask) ==
    LET N == S \cup {d \in mask : \E c \in S : CyclicAdj(c, d)}
    IN  IF N = S THEN S ELSE CyclicGrow(N, mask)

\* C22: on return of label_3D_cyclic, two True cells carry the same label
\* only if a path of face-adjacent True cells joins them, adjacency wrapping
\* around in x and y.
C22_SameLabelOnlyIfConnected ==
    lab.pc = "done" =>
        \A c \in lab.mask, d \in lab.mask :
            lab.labs[c] = lab.labs[d] => d \in CyclicGrow({c}, lab.mask)

\* The labels of the True cells are exactly 0 .. nobjs-1 and every other cell
\* carries -1.
LabelsContiguous ==
    lab.pc \in {"outer", "inner", "done"} =>
        /\ {lab.labs[c] : c \in lab.mask} = 0 .. lab.nobjs - 1
        /\ \A c \in LCells \ lab.mask : lab.labs[c] = -1

\* The step is a merge of label j into the lower label i: the cells of j take
\* i, the cells of every later label take one less, the others keep theirs,
\* and the count drops by one.
MergesDown ==
    /\ lab.i < lab.j
    /\ lab'.nobjs = lab.nobjs - 1
    /\ \A c \in LCells :
          lab'.labs[c] = IF lab.labs[c] = lab.j THEN lab.i
                         ELSE IF lab.labs[c] > lab.j THEN lab.labs[c] - 1
                         ELSE lab.labs[c]

\* C29: after every merge and on return of label_3D_cyclic the set of labels
\* carried by True cells is exactly {0, ..., nobjects-1} and every False cell
\* carries -1; each merge relabels the higher-numbered component into the
\* lower one and lowers every later label and the object count by exactly
\* one; the set of labelled cells never changes.
C29_LabelsStayContiguous ==
    /\ []LabelsContiguous
    /\ [][(lab.pc \in {"outer", "inner"}) =>
             /\ {c \in LCells : lab'.labs[c] >= 0} = {c \in LCells : lab.labs[c] >= 0}
             /\ IF lab'.merges = lab.merges + 1 THEN MergesDown
                ELSE lab'.labs = lab.labs /\ lab'.nobjs = lab.nobjs]_vars

\* A call has returned after a merge that moved a later label down.
C29_Witness ==
    /\ lab.pc = "done"
    /\ lab.merges >= 1
    /\ lab.nobjs >= 2
    /\ Cardinality(lab.mask) > lab.nobjs

----------------------------------------------------------------------------
(* box_overlap_with_wrap                                                    *)

\* Bounds: the periodic domain of the boxes (b_set holds two boxes).
BNx == 2
BNy == 2

\* Box corners are positions after declustering, which may lie one image
\* below 0 or above the domain length.
BoxXs == -1 .. BNx

BoxYs == 0 .. BNy

\* A box is <<min corner, max corner>>, each <<x, y>>, with min <= max.
Boxes == {b \in (BoxXs \X BoxYs) \X (BoxXs \X BoxYs) :
             b[1][1] <= b[2][1] /\ b[1][2] <= b[2][2]}

\* np.where(flags)[0] for a sequence of booleans: the 1-based positions
\* that hold TRUE, in increasing order.
RECURSIVE WhereFrom(_, _)
WhereFrom(flags, k) ==
    IF k > Len(flags) THEN <<>>
    ELSE (IF flags[k] THEN <<k>> ELSE <<>>) \o WhereFrom(flags, k + 1)

Where(flags) == WhereFrom(flags, 1)

\* The tests along one axis without t3, the test for a box that contains
\* the other.
AxisOverlapEndsOnly(bt, bs, ax) ==
    LET t1 == bt[1][ax] >= bs[1][ax] /\ bt[1][ax] <= bs[2][ax]
        t2 == bt[2][ax] >= bs[1][ax] /\ bt[2][ax] <= bs[2][ax]
        t4 == bt[1][ax] >= bs[1][ax] /\ bt[2][ax] <= bs[2][ax]
    IN  (t1 \/ t2) \/ t4

\* t1 or t2 or t3 or t4 along one axis (1 = x, 2 = y).
AxisOverlap(bt, bs, ax) ==
    LET t1 == bt[1][ax] >= bs[1][ax] /\ bt[1][ax] <= bs[2][ax]
        t2 == bt[2][ax] >= bs[1][ax] /\ bt[2][ax] <= bs[2][ax]
        t3 == bt[1][ax] <= bs[1][ax] /\ bt[2][ax] >= bs[2][ax]
        t4 == bt[1][ax] >= bs[1][ax] /\ bt[2][ax] <= bs[2][ax]
    IN  (t1 \/ t2) \/ (t3 \/ t4)

\* box_overlap_with_wrap(b_test, b_set, nx, ny): the positions in b_set of
\* the boxes reported as overlapping b_test (x_ind[y_ind]).
box_overlap_with_wrap(b_test, b_set, nx, ny) ==
    LET x_ind == Where([k \in 1 .. Len(b_set) |-> AxisOverlap(b_test, b_set[k], 1)])
        y_ind == Where([m \in 1 .. Len(x_ind) |->
                           AxisOverlap(b_test, b_set[x_ind[m]], 2)])
    IN  [m \in 1 .. Len(y_ind) |-> x_ind[y_ind[m]]]

SeqRange(s) == {s[k] : k \in 1 .. Len(s)}

BoxInit ==
    /\ box \in {[pc |-> "start", b_test |-> bt, b_set |-> <<b1, b2>>, res |-> <<>>] :
                   bt \in Boxes, b1 \in Boxes, b2 \in Boxes}
    /\ lab = Idle /\ seq = Idle /\ fwd = Idle /\ mat = Idle
    /\ itp = Idle /\ uns = Idle

BoxOverlap ==
    /\ box.pc = "start"
    /\ box' = [box EXCEPT !.pc = "done",
                          !.res = box_overlap_with_wrap(box.b_test, box.b_set, BNx, BNy)]
    /\ UNCHANGED <<lab, seq, fwd, mat, itp, uns>>

BoxNext == BoxOverlap

SpecBox == BoxInit /\ [][BoxNext]_vars

\* Two closed intervals overlap as periodic intervals of period n: some
\* periodic image of the second meets the first.
PeriodicOverlap(a1, a2, b1, b2, n) ==
    \E k \in -3 .. 3 : a1 <= b2 + k * n /\ b1 + k * n <= a2

\* C7: box_overlap_with_wrap returns index k exactly when the x-intervals
\* overlap as periodic intervals of period nx and the y-intervals overlap as
\* periodic intervals of period ny.
C7_OverlapIsWrapAware ==
    box.pc = "done" =>
        \A k \in 1 .. Len(box.b_set) :
            (k \in SeqRange(box.res)) <=>
                (/\ PeriodicOverlap(box.b_test[1][1], box.b_test[2][1],
                                    box.b_set[k][1][1], box.b_set[k][2][1], BNx)
                 /\ PeriodicOverlap(box.b_test[1][2], box.b_test[2][2],
                                    box.b_set[k][1][2], box.b_set[k][2][2], BNy))

----------------------------------------------------------------------------
(* forward_trajectory_step                                                  *)

\* Fixed-point unit: a position p is stored as the integer p * SCALE.
SCALE == 100

\* Bounds: the grid of the snapshot and the largest point set.
FNx == 12
FNy == 12
FNz == 3
MaxPts == 4

\* Program constants of forward_trajectory_step.  The tolerances bound a
\* squared distance, so they are scaled by SCALE * SCALE.
max_iter == 30
errtol_iter == 1
errtol == 50
nd == 5
envsize == 2

\* A position-field snapshot, as seen through data_to_pos + extract_pos: the
\* decoded origin position is g * p - s per axis (x and y periodic).  g = 1 is
\* a uniform displacement by s, g = 0 a field that maps every point to one
\* origin, g = -1 a reflected field on which the relaxation does not contract.
FieldOf(g, s) == [g |-> g, s |-> s]

\* phase(vr, vi, n): a position in [0, n).
Phase(v, n) == v % (n * SCALE)

\* extract_pos(nx, ny, data_to_pos(data_list, pos, ...)): the decoded
\* position field sampled at one position.
PosAt(fld, p) ==
    <<Phase(fld.g[1] * p[1] - fld.s[1], FNx),
      Phase(fld.g[2] * p[2] - fld.s[2], FNy),
      fld.g[3] * p[3] - fld.s[3]>>

\* out[n_pvar:]: the variables of variable_list sampled at one position (one
\* variable, a field that varies along every axis).
DataAt(fld, p) == p[1] + 2 * p[2] + 3 * p[3]

\* x * relax_param, relax_param = 0.5, rounded to the fixed-point unit.
Half(d) == IF d >= 0 THEN (d + 1) \div 2 ELSE -((1 - d) \div 2)

\* "Deal with wrap around": one component of diff = traj_pos_at_est - traj_pos.
Unwrap(d, n) ==
    LET d1 == IF 2 * d < -(n * SCALE) THEN d + n * SCALE ELSE d
    IN  IF 2 * d1 >= n * SCALE THEN d1 - n * SCALE ELSE d1

DiffOf(at, known) ==
    <<Unwrap(at[1] - known[1], FNx), Unwrap(at[2] - known[2], FNy), at[3] - known[3]>>

\* traj_pos_at_est after the wrap-around correction.
AtEstOf(at, known) ==
    LET d == DiffOf(at, known)
    IN  <<known[1] + d[1], known[2] + d[2], at[3]>>

\* mag_diff: "for i in range(3): mag_diff += diff[i,:]**2" on diff[N,3]: the
\* sum over the first three rows (particles), one entry per column.
MagDiff(diff) ==
    [c \in 1 .. 3 |-> diff[1][c] * diff[1][c] + diff[2][c] * diff[2][c]
                      + diff[3][c] * diff[3][c]]

MaxOf3(v) == SetMax({v[1], v[2], v[3]})

\* The clipping of traj_pos_next_est at the end of the loop body.
ClipPos(p) ==
    LET x1 == IF p[1] < 0 THEN p[1] + FNx * SCALE ELSE p[1]
        x2 == IF x1 >= FNx * SCALE THEN x1 - FNx * SCALE ELSE x1
        y1 == IF p[2] < 0 THEN p[2] + FNy * SCALE ELSE p[2]
        y2 == IF y1 >= FNy * SCALE THEN y1 - FNy * SCALE ELSE y1
        z1 == IF p[3] < 0 THEN 0 ELSE p[3]
        z2 == IF z1 >= FNz * SCALE THEN FNz * SCALE ELSE z1
    IN  <<x2, y2, z2>>

\* np.int(np.round(v)): round half to even.
RoundCell(v) ==
    LET q == v \div SCALE
        r == v % SCALE
    IN  IF 2 * r < SCALE THEN q
        ELSE IF 2 * r > SCALE THEN q + 1
        ELSE IF q % 2 = 0 THEN q ELSE q + 1

\* zr[zr >= nz] = nz-1; zr[zr < 0] = 0
ClampZ(k) == IF k >= FNz THEN FNz - 1 ELSE IF k < 0 THEN 0 ELSE k

WinIdx == 0 .. 2 * nd

\* One axis term of dist = dx**2 + dy**2 + dz**2 at window index i of the
\* window centred on cell index lc, for the particle with known position
\* `known` (dx and dy after "dx[dx >= (nx/2)] -= nx; dx[dx < (-nx/2)] += nx").
\* The position field is sampled at a grid node; each axis of PosAt depends
\* on the same axis of the node only.
AxisDist(fld, known, ax, lc, i) ==
    LET n == IF ax = 1 THEN FNx ELSE FNy
        cell == IF ax = 3 THEN ClampZ(lc - nd + i) ELSE (lc - nd + i) % n
        node == [c \in 1 .. 3 |-> IF c = ax THEN cell * SCALE ELSE 0]
        d0 == PosAt(fld, node)[ax] - known[ax]
        d1 == IF ax # 3 /\ 2 * d0 >= n * SCALE THEN d0 - n * SCALE ELSE d0
        d2 == IF ax # 3 /\ 2 * d1 < -(n * SCALE) THEN d1 + n * SCALE ELSE d1
    IN  d2 * d2

\* dist[w] for the window cell w = <<a, b, c>>.
RescueDist(fld, known, l, w) ==
    AxisDist(fld, known, 1, l[1], w[1]) + AxisDist(fld, known, 2, l[2], w[2])
    + AxisDist(fld, known, 3, l[3], w[3])

\* The first index along one axis at which the axis term is least.  d is the
\* axis term as a set of <<value, index>> pairs, computed once.
AxisArgMin(fld, known, ax, lc) ==
    LET first(d) == SetMin({p[2] : p \in {q \in d : \A r \in d : q[1] <= r[1]}})
    IN  CHOOSE m \in {first(d) : d \in {{<<AxisDist(fld, known, ax, lc, i), i>> :
                                           i \in WinIdx}}} : TRUE

\* lp = np.where(dist == np.min(dist)); (lp[0][0], lp[1][0], lp[2][0]): the
\* first minimum of dist in C order.  dist is a sum of one term per axis, so
\* its minima are the cells least along every axis, and the first of them in
\* C order has the first such index on every axis.
MinCell(fld, known, l) ==
    <<AxisArgMin(fld, known, 1, l[1]), AxisArgMin(fld, known, 2, l[2]),
      AxisArgMin(fld, known, 3, l[3])>>

\* The indices along one axis of dist[nx1:nx2, ...] for the minimum at index
\* m of the axis of length 2*nd+1: nx1 = m - envsize counts from the end of
\* the axis when negative, nx2 = m + envsize + 1 stops at the end of the axis.
SubWindowAxis(m) ==
    LET n == 2 * nd + 1
        start == IF m - envsize < 0 THEN m - envsize + n ELSE m - envsize
        stop == IF m + envsize + 1 > n THEN n ELSE m + envsize + 1
    IN  start .. stop - 1

\* dist[nx1:nx2, ny1:ny2, nz1:nz2] with nx1 = lxm - envsize: a negative start
\* counts from the end of the axis, and the slice is then empty.
SubWindowEmpty(m) == m[1] < envsize \/ m[2] < envsize \/ m[3] < envsize

\* The result res.x of minimize(int3d_dist, x0, method='BFGS'), relative to
\* x0: the minimiser is a library routine, its result is any of these offsets.
MinimiserSteps == {<<0, 0, 0>>, <<-70, 30, 130>>}

\* <<lx, ly, lz>> and <<lxm, lym, lzm>> of the rescue pass for one particle.
RescueCell(fld, known, est) ==
    LET l == <<RoundCell(est[1]), RoundCell(est[2]), RoundCell(est[3])>>
    IN  [l |-> l, m |-> MinCell(fld, known, l)]

\* <<newx, newy, newz>>: lx-nd+lxm-envsize+res.x[0], with res.x = x0 + step.
RescuePos(rc, step) ==
    <<(rc.l[1] - nd + rc.m[1]) * SCALE + step[1],
      (rc.l[2] - nd + rc.m[2]) * SCALE + step[2],
      (rc.l[3] - nd + rc.m[3]) * SCALE + step[3]>>

NPts(st) == Len(st.trajectory[1])

\* traj_pos = trajectory[-1]
TrajPos(st) == st.trajectory[Len(st.trajectory)]

\* traj_pos_next_est = 2*trajectory[0]-trajectory[1]
FirstEstimate(trajectory) ==
    [q \in 1 .. Len(trajectory[1]) |->
        <<2 * trajectory[1][q][1] - trajectory[2][q][1],
          2 * trajectory[1][q][2] - trajectory[2][q][2],
          2 * trajectory[1][q][3] - trajectory[2][q][3]>>]

\* The state of one call at the top of its while loop.
FwdEntry(trajectory, fld) ==
    [pc |-> "loop", trajectory |-> trajectory, fld |-> fld,
     est |-> FirstEstimate(trajectory),
     at_est |-> <<>>, diff |-> <<>>, out |-> <<>>, sampled |-> <<>>,
     niter |-> 0, not_converged |-> TRUE, correction_cycle |-> FALSE,
     rescued |-> {}, mincell |-> <<>>, updates |-> 0, samples |-> 0,
     new_pos |-> <<>>, new_err |-> <<>>, new_data |-> <<>>]

\* The part of the loop body every iteration runs: sample the field at the
\* estimate, diff, mag_diff, err.  known, raw and diff are arrays the body
\* computes once each.
Sampled(st) ==
    LET n == NPts(st)
        arrays(known, raw, diff) ==
            [at_est |-> [q \in 1 .. n |-> AtEstOf(raw[q], known[q])] \o <<>>,
             diff |-> diff,
             out |-> [q \in 1 .. n |-> DataAt(st.fld, st.est[q])] \o <<>>,
             indexerror |-> n < 3,
             mag_diff |-> IF n < 3 THEN <<0, 0, 0>> ELSE MagDiff(diff)]
    IN  CHOOSE sm \in
            UNION {{arrays(known, raw, diff) :
                      diff \in {[q \in 1 .. n |-> DiffOf(raw[q], known[q])] \o <<>>}} :
                   known \in {TrajPos(st)},
                   raw \in {[q \in 1 .. n |-> PosAt(st.fld, st.est[q])] \o <<>>}} : TRUE

\* k = np.where(bigerr)[0], bigerr = (mag_diff > errtol): positions of
\* mag_diff, used as row (particle) indices of traj_pos_next_est.
BigErr(mag_diff) == {c \in 1 .. 3 : mag_diff[c] > errtol}

\* This iteration runs the rescue pass.
EntersRescue(st) ==
    LET sm == Sampled(st)
    IN  /\ ~sm.indexerror
        /\ ~st.correction_cycle
        /\ ~(st.niter <= max_iter)
        /\ MaxOf3(sm.mag_diff) > errtol

\* The min-distance cells of the rescue pass, for the particles it treats.
RescueCells(st) ==
    [kk \in BigErr(Sampled(st).mag_diff) |->
        RescueCell(st.fld, TrajPos(st)[kk], st.est[kk])]

\* The diagnostic check that goes round the loop again instead of leaving it.
DiagnosticContinues(st) == [st EXCEPT !.pc = "loop"]

\* "if correction_cycle : ... break": the loop is left after the sampling of
\* the diagnostic check.
DiagnosticBreak(st) == [st EXCEPT !.pc = "append"]

\* One iteration of "while not_converged".  cells are the RescueCells of the
\* state (used by the rescue pass only), steps[kk] is the minimiser's result
\* for particle kk and fails says whether an empty sub-window raises.
\* sm is the Sampled of the state.
FwdIterOn(st, sm, cells, steps, fails) ==
    LET n == NPts(st)
        err == MaxOf3(sm.mag_diff)
        st1 == [st EXCEPT !.at_est = sm.at_est, !.diff = sm.diff, !.out = sm.out,
                          !.sampled = st.est, !.samples = st.samples + 1]
        conv == err <= errtol_iter
        st2 == [st1 EXCEPT !.not_converged = IF conv THEN FALSE ELSE st1.not_converged]
        k == BigErr(sm.mag_diff)
        exits(s) == [s EXCEPT !.est = [q \in 1 .. n |-> ClipPos(s.est[q])] \o <<>>,
                              !.pc = IF s.not_converged THEN "loop" ELSE "append"]
    IN  IF sm.indexerror THEN [st1 EXCEPT !.pc = "error"]
        ELSE IF st.correction_cycle THEN DiagnosticBreak(st1)
        ELSE IF st.niter <= max_iter
        THEN exits([st2 EXCEPT !.est = [q \in 1 .. n |->
                                           <<st.est[q][1] - Half(sm.diff[q][1]),
                                             st.est[q][2] - Half(sm.diff[q][2]),
                                             st.est[q][3] - Half(sm.diff[q][3])>>] \o <<>>,
                               !.niter = st.niter + 1,
                               !.updates = st.updates + 1])
        ELSE IF err > errtol
        THEN IF fails /\ \E kk \in k : SubWindowEmpty(cells[kk].m)
             THEN [st1 EXCEPT !.pc = "error"]
             ELSE exits([st2 EXCEPT !.est = [q \in 1 .. n |->
                                                IF q \in k
                                                THEN RescuePos(cells[q], steps[q])
                                                ELSE st.est[q]] \o <<>>,
                                    !.rescued = k,
                                    !.mincell = [kk \in k |-> cells[kk].m],
                                    !.correction_cycle = TRUE])
        ELSE exits([st2 EXCEPT !.correction_cycle = TRUE])

\* The iteration with the field sampled once at its top.
FwdIter(st, cells, steps, fails) ==
    CHOOSE nx \in {FwdIterOn(st, sm, cells, steps, fails) : sm \in {Sampled(st)}} : TRUE

NoSteps == [kk \in 1 .. 3 |-> <<0, 0, 0>>]

\* data_val.append(...); trajectory.append(traj_pos_next_est);
\* traj_error.append(diff)
FwdFinish(st) ==
    [st EXCEPT !.pc = "done", !.new_pos = st.est, !.new_err = st.diff,
               !.new_data = st.out]

\* Inputs of the call: per particle a known position and the displacement
\* between the earlier trajectory entries.
KnownPts == {<<10, 600, 100>>, <<(FNx - 1) * SCALE + 90, 600, (FNz - 1) * SCALE>>}

Vels == {<<0, 0, 0>>, <<-30, 0, 60>>}

\* A stored position: x and y in [0, n), z on the grid.
WrapPos(p) ==
    <<p[1] % (FNx * SCALE), p[2] % (FNy * SCALE),
      IF p[3] < 0 THEN 0 ELSE IF p[3] > (FNz - 1) * SCALE THEN (FNz - 1) * SCALE ELSE p[3]>>

TrackOf(k, v) ==
    <<WrapPos(<<k[1] - 2 * v[1], k[2] - 2 * v[2], k[3] - 2 * v[3]>>),
      WrapPos(<<k[1] - v[1], k[2] - v[2], k[3] - v[3]>>), k>>

Tracks == {TrackOf(k, v) : k \in KnownPts, v \in Vels}

FwdFields ==
    {FieldOf(<<1, 1, 1>>, <<0, 0, 0>>), FieldOf(<<1, 1, 1>>, <<30, 0, 40>>),
     FieldOf(<<-1, 1, 1>>, <<-20, 0, 0>>), FieldOf(<<0, 0, 0>>, <<-150, -650, -100>>)}

\* The trajectory lists the call can be given: three entries per particle.
FwdTrajectories ==
    UNION {{[t \in 1 .. 3 |-> [q \in 1 .. n |-> tr[q][t]]] : tr \in [1 .. n -> Tracks]} :
              n \in 1 .. MaxPts}

FwdInit ==
    /\ fwd \in {FwdEntry(tj, f) : tj \in FwdTrajectories, f \in FwdFields}
    /\ lab = Idle /\ seq = Idle /\ mat = Idle /\ box = Idle
    /\ itp = Idle /\ uns = Idle

\* A loop iteration that does not run the rescue pass.
FwdIterate ==
    /\ fwd.pc = "loop"
    /\ ~EntersRescue(fwd)
    /\ fwd' = FwdIter(fwd, <<>>, NoSteps, FALSE)
    /\ UNCHANGED <<lab, seq, mat, box, itp, uns>>

\* The loop iteration that runs the rescue pass.
FwdRescue ==
    /\ fwd.pc = "loop"
    /\ EntersRescue(fwd)
    /\ \E cells \in {RescueCells(fwd)}, steps \in [1 .. 3 -> MinimiserSteps],
          fails \in BOOLEAN :
            fwd' = FwdIter(fwd, cells, steps, fails)
    /\ UNCHANGED <<lab, seq, mat, box, itp, uns>>

\* The statements after the loop.
FwdAppend ==
    /\ fwd.pc = "append"
    /\ fwd' = FwdFinish(fwd)
    /\ UNCHANGED <<lab, seq, mat, box, itp, uns>>

FwdNext == FwdIterate \/ FwdRescue \/ FwdAppend

SpecFwd == FwdInit /\ [][FwdNext]_vars

RECURSIVE FwdRun(_)
\* The states in which a call of forward_trajectory_step can end, from a
\* state of its loop.
FwdRun(st) ==
    IF st.pc = "loop"
    THEN IF EntersRescue(st)
         THEN LET cells == RescueCells(st)
              IN  UNION {FwdRun(FwdIter(st, cells, steps, fails)) :
                            steps \in [1 .. 3 -> MinimiserSteps], fails \in BOOLEAN}
         ELSE FwdRun(FwdIter(st, <<>>, NoSteps, FALSE))
    ELSE IF st.pc = "append" THEN {FwdFinish(st)}
    ELSE {st}

\* The squared distance between the sampled position field and the known
\* position of one particle.
SqErr(d) == d[1] * d[1] + d[2] * d[2] + d[3] * d[3]

\* The loop was left as converged before the iteration cap was exceeded.
LeftConverged == fwd.pc = "append" /\ ~fwd.not_converged /\ ~fwd.correction_cycle

\* C3: when forward_trajectory_step leaves its iteration as converged, the
\* squared distance between the position field sampled at the estimate and
\* the known position is within the convergence tolerance for every particle.
C3_ConvergedMeansEveryParticle ==
    LeftConverged => \A q \in 1 .. NPts(fwd) : SqErr(fwd.diff[q]) <= errtol_iter

\* C4: every position that forward_trajectory_step appends lies in the valid
\* domain, 0 <= x < nx, 0 <= y < ny, 0 <= z <= nz-1.
C4_AppendedPositionInDomain ==
    fwd.pc = "done" =>
        \A q \in 1 .. NPts(fwd) :
            /\ 0 <= fwd.new_pos[q][1] /\ fwd.new_pos[q][1] < FNx * SCALE
            /\ 0 <= fwd.new_pos[q][2] /\ fwd.new_pos[q][2] < FNy * SCALE
            /\ 0 <= fwd.new_pos[q][3] /\ fwd.new_pos[q][3] <= (FNz - 1) * SCALE

\* C10: the error stored for a step is the residual F(p) - p_known (after the
\* periodic unwrap) at the very position p stored for the step, and the data
\* values stored for the step are sampled at that position.
C10_StoredErrorIsResidualAtStoredPosition ==
    fwd.pc = "done" =>
        \A q \in 1 .. NPts(fwd) :
            /\ fwd.new_err[q] = DiffOf(PosAt(fwd.fld, fwd.new_pos[q]), TrajPos(fwd)[q])
            /\ fwd.new_data[q] = DataAt(fwd.fld, fwd.new_pos[q])

\* The trajectory lists that hold the same particles in the reverse order, or
\* that differ from `trajectory` in the track of exactly one particle other
\* than q, each with the index of particle q in it.
OtherRuns(trajectory, q) ==
    LET n == Len(trajectory[1])
        reversed == [t \in 1 .. Len(trajectory) |->
                        [p \in 1 .. n |-> trajectory[t][n + 1 - p]]]
        replaced == {[t \in 1 .. Len(trajectory) |->
                         [p \in 1 .. n |-> IF p = o THEN tr[t] ELSE trajectory[t][p]]] :
                        o \in (1 .. n) \ {q}, tr \in Tracks}
    IN  {[trajectory |-> reversed, q |-> n + 1 - q]}
        \cup {[trajectory |-> tj, q |-> q] : tj \in replaced}

\* Some outcome of the call on the other run returns, for its particle, the
\* position pos and the error err.
ReturnsFor(other, fld, pos, err) ==
    \E r \in FwdRun(FwdEntry(other.trajectory, fld)) :
        r.pc = "done" /\ r.new_pos[other.q] = pos /\ r.new_err[other.q] = err

\* C11: the position and error returned for one particle depend only on that
\* particle's known positions and on the field snapshot: a call on the same
\* field with the same particle among other particles (another track for one
\* of them, or the same particles in another order) returns the same position
\* and error for it.
C11_ParticleResultIndependentOfOthers ==
    (fwd.pc = "done" /\ NPts(fwd) >= 3) =>
        \A q \in 1 .. NPts(fwd) :
            \A other \in OtherRuns(fwd.trajectory, q) :
                ReturnsFor(other, fwd.fld, fwd.new_pos[q], fwd.new_err[q])

\* C20: the first estimate of forward_trajectory_step is 2*p[t] - p[t-1] for
\* every particle, with p[t] the last entry of the trajectory list (the
\* position being advanced from) and p[t-1] the entry before it.
C20_FirstEstimateExtrapolatesLatest ==
    (fwd.pc = "loop" /\ fwd.niter = 0) =>
        LET n == Len(fwd.trajectory)
        IN  \A q \in 1 .. NPts(fwd) : \A a \in 1 .. 3 :
                fwd.est[q][a] = 2 * fwd.trajectory[n][q][a] - fwd.trajectory[n - 1][q][a]

\* The rescue pass of the call has just run: the iteration cap was exceeded
\* with err above errtol, and the loop has not yet sampled the field again.
RescueJustRan ==
    /\ fwd.pc = "loop"
    /\ fwd.correction_cycle
    /\ MaxOf3(MagDiff(fwd.diff)) > errtol

\* C21: the rescue pass replaces the estimate of exactly the particles whose
\* own squared error exceeds errtol, and of no other particle.
C21_RescueReplacesExactlyTheFailedParticles ==
    RescueJustRan =>
        fwd.rescued = {q \in 1 .. NPts(fwd) : SqErr(fwd.diff[q]) > errtol}

\* C26: in the rescue pass the sub-window handed to the minimiser is, for
\* every rescued particle, the 5x5x5 block of the search window centred on
\* the minimum-distance cell, so that x0 = (envsize, envsize, envsize) is
\* that cell.
C26_SubWindowCentredOnMinimum ==
    (fwd.correction_cycle /\ fwd.rescued # {}) =>
        \A kk \in fwd.rescued : \A a \in 1 .. 3 :
            SubWindowAxis(fwd.mincell[kk][a])
                = (fwd.mincell[kk][a] - envsize) .. (fwd.mincell[kk][a] + envsize)

\* C27: a call of forward_trajectory_step applies at most max_iter = 30
\* relaxation updates to the estimate.
C27_AtMostMaxIterUpdates == fwd.updates <= max_iter

\* A call whose loop iterations are taken as long as one is possible.
SpecFwdLive == FwdInit /\ [][FwdNext]_vars /\ WF_vars(FwdNext)

\* A call that left its loop unconverged after the iteration cap has sampled
\* the field once per relaxation update, once in the iteration that exceeded
\* the cap and once more for the diagnostic check.
OneDiagnosticCheck ==
    (fwd.pc \in {"append", "done"} /\ fwd.correction_cycle /\ fwd.not_converged) =>
        (fwd.updates = max_iter + 1 /\ fwd.samples = fwd.updates + 2)

\* C28: every call of forward_trajectory_step ends (it returns or raises);
\* once the iteration cap is exceeded without convergence no second rescue
\* pass runs, the field is sampled exactly once more and the loop is left
\* with the estimate unchanged.
C28_StepTerminatesAfterOneCheck ==
    /\ <>(fwd.pc \in {"done", "error"})
    /\ []OneDiagnosticCheck
    /\ [][fwd.correction_cycle =>
              /\ fwd'.est = fwd.est
              /\ fwd'.rescued = fwd.rescued
              /\ fwd'.updates = fwd.updates
              /\ (fwd.pc = "loop") =>
                    (fwd'.pc = "append" /\ fwd'.samples = fwd.samples + 1)]_vars

\* C28 witness: a call has returned after a rescue pass and the diagnostic
\* check that follows it.
C28_Witness ==
    /\ fwd.pc = "done"
    /\ fwd.correction_cycle
    /\ fwd.not_converged
    /\ fwd.rescued # {}
    /\ fwd.samples = max_iter + 3

----------------------------------------------------------------------------
(* tri_lin_interp                                                           *)

\* Bounds: the grid of the interpolated fields (at least two levels in z).
INx == 3
INy == 2
INz == 3

\* whichbox(xvec, x) for xvec = np.arange(n): np.searchsorted(xvec, x,
\* side='left') is the number of entries of xvec below x.
whichbox(n, x) ==
    LET ix == Cardinality({k \in 0 .. n - 1 : k * SCALE < x}) - 1
    IN  IF ix > n - 1 THEN n - 1 ELSE IF ix < 0 THEN 0 ELSE ix

\* [xp, 1.0 - xp]
WeightsSwapped(p) == <<p, SCALE - p>>

\* [1.0 - xp, xp], with weights in units of 1/SCALE.
Weights(p) == <<SCALE - p, p>>

\* The corners <<i, j, k>> of the loops "for i / for j / for k in range(0,2)".
Corners == (0 .. 1) \X (0 .. 1) \X (0 .. 1)

\* The grid index the loop body reads at a corner: [(ix+i)%nx, (iy+j)%ny, iz+k].
CornerCell(i3, c, n) == <<(i3[1] + c[1]) % n[1], (i3[2] + c[2]) % n[2], i3[3] + c[3]>>

RECURSIVE CornerSum(_, _, _, _, _)
\* output[l] after the corner loops, over the corners cs still to add: the
\* sum of data[l][cell] * wx[i] * wy[j] * wz[k], in units of 1/SCALE^3.
CornerSum(field, i3, w, n, cs) ==
    IF cs = {} THEN 0
    ELSE LET c == CHOOSE x \in cs : TRUE
         IN  field[CornerCell(i3, c, n)]
                 * w[1][c[1] + 1] * w[2][c[2] + 1] * w[3][c[3] + 1]
             + CornerSum(field, i3, w, n, cs \ {c})

\* tri_lin_interp(data, pos, xcoord, ycoord, zcoord) for one position on the
\* grid n = <<nx, ny, nz>> with the coordinates np.arange(n) of
\* trajectory_init: the values per field (in units of 1/SCALE^3) and the grid
\* indices read.
tri_lin_interp(data, pos, n) ==
    LET iz0 == whichbox(n[3], pos[3])
        i3 == <<whichbox(n[1], pos[1]), whichbox(n[2], pos[2]),
                IF iz0 > n[3] - 2 THEN iz0 - 1 ELSE iz0>>
        w == <<Weights(pos[1] - i3[1] * SCALE), Weights(pos[2] - i3[2] * SCALE),
               Weights(pos[3] - i3[3] * SCALE)>>
        reads == {CornerCell(i3, c, n) : c \in Corners}
    IN  [output |-> [l \in 1 .. Len(data) |-> CornerSum(data[l], i3, w, n, Corners)],
         reads |-> reads]

\* The grids of a call: <<nx, ny, nz>>.
ItpGrids == {<<INx, INy, INz>>, <<INx - 1, INy, INz - 1>>}

ItpCells(n) == (0 .. n[1] - 1) \X (0 .. n[2] - 1) \X (0 .. n[3] - 1)

\* The data lists of a call: two fields that differ at every pair of nodes.
ItpData(n) ==
    {<<[c \in ItpCells(n) |-> 1 + c[1] + 10 * c[2] + 100 * c[3]],
       [c \in ItpCells(n) |-> 7 * c[3] - c[1] * c[1] - 3 * c[2]]>>,
     <<[c \in ItpCells(n) |-> (c[1] + 1) * (c[2] + 2) * (c[3] + 3)]>>}

\* The positions of a call: the nodes and the points half-way between them,
\* x and y in [0, n), z in [0, nz].
ItpPositions(n) ==
    {<<a * (SCALE \div 2), b * (SCALE \div 2), c * (SCALE \div 2)>> :
        a \in 0 .. 2 * n[1] - 1, b \in 0 .. 2 * n[2] - 1, c \in 0 .. 2 * n[3]}

ItpInit ==
    /\ \E n \in ItpGrids : \E d \in ItpData(n), p \in ItpPositions(n) :
          itp = [pc |-> "ready", n |-> n, data |-> d, pos |-> p, result |-> <<>>]
    /\ lab = Idle /\ seq = Idle /\ fwd = Idle /\ mat = Idle /\ box = Idle /\ uns = Idle

\* A call of tri_lin_interp.
ItpCall ==
    /\ itp.pc = "ready"
    /\ itp' = [itp EXCEPT !.pc = "done",
                          !.result = tri_lin_interp(itp.data, itp.pos, itp.n)]
    /\ UNCHANGED <<lab, seq, fwd, mat, box, uns>>

ItpNext == ItpCall

SpecInterp == ItpInit /\ [][ItpNext]_vars

\* The position is a grid node (i, j, k) with 0 <= i < nx, 0 <= j < ny and
\* 0 <= k <= nz-1.
AtNode(pos, n) ==
    /\ \A a \in 1 .. 3 : pos[a] % SCALE = 0
    /\ <<pos[1] \div SCALE, pos[2] \div SCALE, pos[3] \div SCALE>> \in ItpCells(n)

\* C16: at a position with integer coordinates (i, j, k) inside the grid,
\* edge nodes included, tri_lin_interp returns data[i, j, k] exactly for
\* every field and reads no index outside the grid.
C16_InterpolationExactAtNodes ==
    (itp.pc = "done" /\ AtNode(itp.pos, itp.n)) =>
        /\ itp.result.reads \subseteq ItpCells(itp.n)
        /\ \A l \in 1 .. Len(itp.data) :
              itp.result.output[l]
                  = SCALE * SCALE * SCALE
                    * itp.data[l][<<itp.pos[1] \div SCALE, itp.pos[2] \div SCALE,
                                    itp.pos[3] \div SCALE>>]

\* C16 witness: a call at the corner node (nx-1, ny-1, nz-1) of the grid has
\* returned.
C16_Witness ==
    /\ itp.pc = "done"
    /\ itp.pos = <<(itp.n[1] - 1) * SCALE, (itp.n[2] - 1) * SCALE, (itp.n[3] - 1) * SCALE>>
    /\ Len(itp.data) = 2

----------------------------------------------------------------------------
(* unsplit_object and unsplit_objects                                       *)

\* The periodic grid of the declustered positions.
UNx == 8
UNy == 8

\* Bounds: the values of y and z of the points of an object.
UMaxY == 5
UMaxZ == 1

RECURSIVE SumOver(_, _, _)
\* The sum of coordinate a of the points of pos with an index in S.
SumOver(pos, S, a) ==
    IF S = {} THEN 0
    ELSE LET q == CHOOSE x \in S : TRUE
         IN  pos[q][a] + SumOver(pos, S \ {q}, a)

\* kmeans.cluster_centers_[i] for the cluster with the points S, as the sum
\* of the points and their number (the centre is their quotient).
Centre(pos, S) == [sum |-> [a \in 1 .. 3 |-> SumOver(pos, S, a)], n |-> Cardinality(S)]

\* The squared distance of the point p to a centre, times the square of n.
Dist2(p, c) ==
    (c.n * p[1] - c.sum[1]) * (c.n * p[1] - c.sum[1])
    + (c.n * p[2] - c.sum[2]) * (c.n * p[2] - c.sum[2])
    + (c.n * p[3] - c.sum[3]) * (c.n * p[3] - c.sum[3])

\* The label of the centre nearest to p: the lowest label among the nearest.
Nearest(p, centres) ==
    LET d == [k \in 1 .. Len(centres) |-> Dist2(p, centres[k])] \o <<>>
        w == [k \in 1 .. Len(centres) |-> centres[k].n * centres[k].n] \o <<>>
    IN  SetMin({k \in 1 .. Len(centres) :
                   \A j \in 1 .. Len(centres) : d[k] * w[j] <= d[j] * w[k]})

\* The E-step of an iteration of KMeans: the clusters, in label order, when
\* every point is given the label of the nearest centre.
Relabelled(pos, centres) ==
    LET labels == [q \in 1 .. Len(pos) |-> Nearest(pos[q], centres)] \o <<>>
    IN  [k \in 1 .. Len(centres) |-> {q \in 1 .. Len(pos) : labels[q] = k}]

CentresOf(pos, clusters) == [k \in 1 .. Len(clusters) |-> Centre(pos, clusters[k])] \o <<>>

\* The ways the M-step relocates the centres of the empty clusters: each is
\* put on one of the points farthest from the centre of their own cluster.
Relocations(pos, centres, clusters) ==
    LET empties == {k \in 1 .. Len(clusters) : clusters[k] = {}}
        own(q) == centres[CHOOSE k \in 1 .. Len(clusters) : q \in clusters[k]]
        farther(q, r) == Dist2(pos[q], own(q)) * own(r).n * own(r).n
                             >= Dist2(pos[r], own(r)) * own(q).n * own(q).n
    IN  {far \in [empties -> 1 .. Len(pos)] :
            /\ \A j, k \in empties : far[j] = far[k] => j = k
            /\ \A k \in empties : \A r \in (1 .. Len(pos)) \ {far[j] : j \in empties} :
                  farther(far[k], r)}

\* The centres after the M-step for one relocation: the means of the
\* clusters, a relocated centre on its point, and the cluster that point
\* came from with or without it (the two differ between library versions).
Relocated(pos, clusters, far, without) ==
    LET moved == {far[k] : k \in DOMAIN far}
    IN  [k \in 1 .. Len(clusters) |->
            IF k \in DOMAIN far THEN Centre(pos, {far[k]})
            ELSE IF without /\ clusters[k] \ moved # {} THEN Centre(pos, clusters[k] \ moved)
            ELSE Centre(pos, clusters[k])]

\* The iterations of KMeans the model follows at most.
KMeansIter == 12

RECURSIVE KMeansFit(_, _, _)
\* kmeans.fit(pos) from the centres of an iteration: iterate until the
\* centres no longer change.  The results are kmeans.labels_ as the list of
\* clusters in label order.
KMeansFit(pos, centres, iter) ==
    LET clusters == Relabelled(pos, centres)
    IN  IF \A k \in 1 .. Len(clusters) : clusters[k] # {}
        THEN IF CentresOf(pos, clusters) = centres \/ iter >= KMeansIter
             THEN {clusters}
             ELSE KMeansFit(pos, CentresOf(pos, clusters), iter + 1)
        ELSE IF iter >= KMeansIter THEN {clusters}
        ELSE UNION {KMeansFit(pos, Relocated(pos, clusters, far, without), iter + 1) :
                       far \in Relocations(pos, centres, clusters), without \in BOOLEAN}

\* The initial centres KMeans can draw: n_clust distinct points of pos, in
\* any order (the order is the order of the labels).
Seeds(npts, n_clust) ==
    {sd \in [1 .. n_clust -> 1 .. npts] :
        \A j, k \in 1 .. n_clust : sd[j] = sd[k] => j = k}

\* The clusterings KMeans(n_clusters=n_clust).fit(pos) can return.
KMeans(pos, n_clust) ==
    UNION {KMeansFit(pos, CentresOf(pos, [k \in 1 .. n_clust |-> {sd[k]}]), 0) :
              sd \in Seeds(Len(pos), n_clust)}

\* A shift that is applied only when the centres are a whole domain apart.
ShiftOfFullDomain(ci, cm, a, n) ==
    LET d == ci.sum[a] * cm.n - cm.sum[a] * ci.n
    IN  IF d < -(n * ci.n * cm.n) THEN n
        ELSE IF d > n * ci.n * cm.n THEN -n
        ELSE 0

\* The shift of cluster i along one axis of length n: +n when its centre lies
\* more than n/2 below the centre of the main cluster, -n when more than n/2
\* above it.
ShiftOf(ci, cm, a, n) ==
    LET d2 == 2 * (ci.sum[a] * cm.n - cm.sum[a] * ci.n)
    IN  IF d2 < -(n * ci.n * cm.n) THEN n
        ELSE IF d2 > n * ci.n * cm.n THEN -n
        ELSE 0

\* An unsplit_object that takes the last of the largest clusters as the main
\* cluster.
UnsplitWithLastMain(pos, clusters) ==
    LET top == SetMax({Cardinality(clusters[k]) : k \in 1 .. Len(clusters)})
        main == SetMax({k \in 1 .. Len(clusters) : Cardinality(clusters[k]) = top})
        cm == Centre(pos, clusters[main])
    IN  [q \in 1 .. Len(pos) |->
            LET i == CHOOSE k \in 1 .. Len(clusters) : q \in clusters[k]
                ci == Centre(pos, clusters[i])
            IN  <<pos[q][1] + ShiftOf(ci, cm, 1, UNx),
                  pos[q][2] + ShiftOf(ci, cm, 2, UNy), pos[q][3]>>]

\* unsplit_object(pos, nx, ny), given the clusters of kmeans.fit(pos).
UnsplitWith(pos, clusters) ==
    LET top == SetMax({Cardinality(clusters[k]) : k \in 1 .. Len(clusters)})
        main == SetMin({k \in 1 .. Len(clusters) : Cardinality(clusters[k]) = top})
        cm == Centre(pos, clusters[main])
    IN  [q \in 1 .. Len(pos) |->
            LET i == CHOOSE k \in 1 .. Len(clusters) : q \in clusters[k]
                ci == Centre(pos, clusters[i])
            IN  <<pos[q][1] + ShiftOf(ci, cm, 1, UNx),
                  pos[q][2] + ShiftOf(ci, cm, 2, UNy), pos[q][3]>>]

\* unsplit_object(pos, nx, ny): the results it can return.
unsplit_object(pos) ==
    {UnsplitWith(pos, cl) : cl \in KMeans(pos, SetMin({4, Len(pos)}))}

\* The test of unsplit_objects: the spread of x exceeds nx/2 or the spread
\* of y exceeds ny/2.
IsSplit(tr) ==
    LET xs == {tr[q][1] : q \in 1 .. Len(tr)}
        ys == {tr[q][2] : q \in 1 .. Len(tr)}
    IN  2 * (SetMax(xs) - SetMin(xs)) > UNx \/ 2 * (SetMax(ys) - SetMin(ys)) > UNy

\* The indices of the points with label iobj, in increasing order.
Members(labels, iobj) == Where([q \in 1 .. Len(labels) |-> labels[q] = iobj])

RECURSIVE UnsplitFrom(_, _, _, _)
\* The loops of unsplit_objects from their k-th iteration (in loop order:
\* iobj, it): the trajectory arrays it can return.
UnsplitFrom(trajectory, labels, nobjects, k) ==
    LET nt == Len(trajectory)
        iobj == k \div nt
        it == (k % nt) + 1
        mem == Members(labels, iobj)
        tr == [m \in 1 .. Len(mem) |-> trajectory[it][mem[m]]]
    IN  IF k >= nobjects * nt THEN {trajectory}
        ELSE IF ~IsSplit(tr) THEN UnsplitFrom(trajectory, labels, nobjects, k + 1)
        ELSE UNION {UnsplitFrom([trajectory EXCEPT ![it] =
                                    [q \in 1 .. Len(labels) |->
                                        IF labels[q] = iobj
                                        THEN new[CHOOSE m \in 1 .. Len(mem) : mem[m] = q]
                                        ELSE trajectory[it][q]]],
                                 labels, nobjects, k + 1) :
                       new \in unsplit_object(tr)}

\* unsplit_objects(trajectory, labels, nobjects, nx, ny)
unsplit_objects(trajectory, labels, nobjects) == UnsplitFrom(trajectory, labels, nobjects, 0)

\* The points of pos in the order of the scan of the grid.
RECURSIVE AsList(_)
AsList(S) ==
    IF S = {} THEN <<>>
    ELSE LET least == CHOOSE p \in S : \A r \in S :
                         (p[1] * 100 + p[2]) * 100 + p[3] <= (r[1] * 100 + r[2]) * 100 + r[3]
         IN  <<least>> \o AsList(S \ {least})

\* Objects of six particles that straddle the x boundary: x in {0, 1} and
\* in {nx-2, nx-1}, both present, y within half the domain.
StraddlingSets ==
    {S \in SUBSET ({0, 1, UNx - 2, UNx - 1} \X {UMaxY - 3, UMaxY - 2, UMaxY} \X {UMaxZ}) :
        /\ Cardinality(S) = 6
        /\ \E p \in S : p[1] <= 1
        /\ \E p \in S : p[1] >= UNx - 2}

\* Objects of up to three particles anywhere along x, at a time.
SmallSets ==
    {S \in SUBSET ((0 .. UNx - 1) \X {UMaxY - 2} \X {UMaxZ}) : Cardinality(S) \in 1 .. 3}

\* The arguments of a call: one time and one object, or the three-particle
\* sets at two times with the last particle in an object of its own.
UnsEntry(trajectory, labels, nobjects) ==
    [pc |-> "ready", trajectory |-> trajectory, labels |-> labels,
     nobjects |-> nobjects, input |-> trajectory, once |-> <<>>]

UnsInit ==
    /\ \/ \E S \in StraddlingSets \cup SmallSets :
             uns = UnsEntry(<<AsList(S)>>, [q \in 1 .. Cardinality(S) |-> 0], 1)
       \/ \E S \in SmallSets, T \in {<<0, 0>>, <<UNx - 2, 0>>} :
             /\ Cardinality(S) = 3
             /\ uns = UnsEntry(<<AsList(S),
                                 [q \in 1 .. 3 |->
                                     <<(AsList(S)[q][1] + T[1]) % UNx,
                                       AsList(S)[q][2], AsList(S)[q][3]>>]>>,
                               <<0, 0, 1>>, 2)
    /\ lab = Idle /\ seq = Idle /\ fwd = Idle /\ mat = Idle /\ box = Idle /\ itp = Idle

\* The first call of unsplit_objects (Trajectories.__init__).
UnsFirst ==
    /\ uns.pc = "ready"
    /\ \E t \in unsplit_objects(uns.trajectory, uns.labels, uns.nobjects) :
          uns' = [uns EXCEPT !.pc = "once", !.trajectory = t, !.once = t]
    /\ UNCHANGED <<lab, seq, fwd, mat, box, itp>>

\* A call of unsplit_objects on the output of the first.
UnsSecond ==
    /\ uns.pc = "once"
    /\ \E t \in unsplit_objects(uns.trajectory, uns.labels, uns.nobjects) :
          uns' = [uns EXCEPT !.pc = "twice", !.trajectory = t]
    /\ UNCHANGED <<lab, seq, fwd, mat, box, itp>>

UnsNext == UnsFirst \/ UnsSecond

SpecUnsplit == UnsInit /\ [][UnsNext]_vars

\* The largest object of the calls on objects around a corner of the domain.
MaxCorner == 5

\* Objects of up to MaxCorner particles around a corner of the domain: x in
\* {0, 1, nx-1}, y in {0, ny-1}, z in {0, 1}.
CornerSets ==
    {S \in SUBSET ({0, 1, UNx - 1} \X {0, UNy - 1} \X {0, UMaxZ}) :
        Cardinality(S) \in 1 .. MaxCorner}

UnsInitCorner ==
    /\ \E S \in CornerSets :
          uns = UnsEntry(<<AsList(S)>>, [q \in 1 .. Cardinality(S) |-> 0], 1)
    /\ lab = Idle /\ seq = Idle /\ fwd = Idle /\ mat = Idle /\ box = Idle /\ itp = Idle

\* Calls of unsplit_objects on one object around a corner of the domain.
SpecUnsplitCorner == UnsInitCorner /\ [][UnsNext]_vars

\* The call was given one object of six particles with x in {0, 1} and in
\* {nx-2, nx-1} (6 and 7 on the 8-wide grid), at one time.
Straddles ==
    /\ Len(uns.input) = 1
    /\ Len(uns.input[1]) = 6
    /\ \A q \in 1 .. 6 : uns.input[1][q][1] \in {0, 1, UNx - 2, UNx - 1}
    /\ \E q \in 1 .. 6 : uns.input[1][q][1] <= 1
    /\ \E q \in 1 .. 6 : uns.input[1][q][1] >= UNx - 2

C18_DeclusteringIdempotent ==
    uns.pc = "twice" => uns.trajectory = uns.once

\* out is pos with whole clusters moved by a domain length: every x differs
\* by 0, +nx or -nx, every y by 0, +ny or -ny, no z differs, the points of
\* one cluster differ by the same amount, and the points of the main cluster
\* (the lowest label among the largest clusters) do not differ.
MovedByClusters(pos, out, clusters) ==
    LET K == 1 .. Len(clusters)
        top == SetMax({Cardinality(clusters[k]) : k \in K})
        main == SetMin({k \in K : Cardinality(clusters[k]) = top})
    IN  /\ \A q \in 1 .. Len(pos) :
              /\ out[q][1] - pos[q][1] \in {0, UNx, -UNx}
              /\ out[q][2] - pos[q][2] \in {0, UNy, -UNy}
              /\ out[q][3] = pos[q][3]
        /\ \A k \in K : \A q, r \in clusters[k] :
              /\ out[q][1] - pos[q][1] = out[r][1] - pos[r][1]
              /\ out[q][2] - pos[q][2] = out[r][2] - pos[r][2]
        /\ \A q \in clusters[main] : out[q] = pos[q]

\* The call was given one object at one time, and unsplit_objects found it
\* split and passed it to unsplit_object.
OneSplitObject ==
    /\ uns.pc = "once"
    /\ Len(uns.input) = 1
    /\ uns.nobjects = 1
    /\ IsSplit(uns.input[1])

\* C30: unsplit_object changes the x of every point by exactly 0, +nx or -nx
\* and its y by exactly 0, +ny or -ny, never changes z, shifts all points of
\* one cluster by the same amount, and leaves the points of the largest
\* cluster (the first of them on a tie) unchanged, whatever clusters KMeans
\* returns; the positions stored by the call come from one of them.
C30_WholeClustersMoveByDomain ==
    OneSplitObject =>
        LET pos == uns.input[1]
            km == KMeans(pos, SetMin({4, Len(pos)}))
        IN  /\ \A cl \in km : MovedByClusters(pos, UnsplitWith(pos, cl), cl)
            /\ \E cl \in km : \A q \in 1 .. Len(pos) :
                  uns.trajectory[1][q] = UnsplitWith(pos, cl)[q]

\* C30 witness: an object of five points around the corner has been
\* declustered: a point has moved by nx, a point by ny, a point has stayed,
\* and the points are not all at one height.
C30_Witness ==
    /\ OneSplitObject
    /\ Len(uns.input[1]) = 5
    /\ \E q \in 1 .. 5 : uns.trajectory[1][q][1] - uns.input[1][q][1] \in {UNx, -UNx}
    /\ \E q \in 1 .. 5 : uns.trajectory[1][q][2] - uns.input[1][q][2] \in {UNy, -UNy}
    /\ \E q \in 1 .. 5 : uns.trajectory[1][q] = uns.input[1][q]
    /\ \E q, r \in 1 .. 5 : uns.input[1][q][3] # uns.input[1][r][3]

\* C19: for boxes with min <= max on every axis, box_overlap_with_wrap
\* reports a box B of the set as overlapping the test box A exactly when,
\* called with B as the test box, it reports A as overlapping B.
C19_BoxOverlapSymmetric ==
    box.pc = "done" =>
        \A k \in 1 .. Len(box.b_set) :
            (k \in SeqRange(box.res))
                <=> (1 \in SeqRange(box_overlap_with_wrap(box.b_set[k], <<box.b_test>>,
                                                         BNx, BNy)))

\* C19 witness: the test box contains the first box of the set strictly
\* along x and overlaps it partially along y, and both are reported; the
\* second box of the set lies apart and is not.
C19_Witness ==
    /\ box.pc = "done"
    /\ box.res = <<1>>
    /\ box.b_test[1][1] < box.b_set[1][1][1]
    /\ box.b_set[1][2][1] < box.b_test[2][1]
    /\ box.b_test[1][2] < box.b_set[1][1][2]
    /\ box.b_set[1][1][2] <= box.b_test[2][2]
    /\ box.b_test[2][2] < box.b_set[1][2][2]
    /\ 1 \in SeqRange(box_overlap_with_wrap(box.b_set[1], <<box.b_test>>, BNx, BNy))
    /\ box_overlap_with_wrap(box.b_set[2], <<box.b_test>>, BNx, BNy) = <<>>

----------------------------------------------------------------------------
(* compute_trajectories                                                     *)

\* Bounds: the number of files and the number of snapshots they hold in all.
MaxFiles == 3
MaxSnaps == 4

\* The interval between the times of two consecutive snapshots; a requested
\* time between two snapshot times is a time no file holds.
TimeStep == 2

RECURSIVE SumTo(_, _)
\* The number of snapshots in the first n files of a run of file lengths.
SumTo(lens, n) == IF n = 0 THEN 0 ELSE lens[n] + SumTo(lens, n - 1)

\* The ordered list of files: per file the times of its snapshots (strictly
\* increasing along the list) and file_key, the output time in the file name,
\* which is the time of the last snapshot the file holds.
FilesOf(lens) ==
    [i \in 1 .. Len(lens) |->
        LET times == [k \in 1 .. lens[i] |-> (SumTo(lens, i - 1) + k) * TimeStep]
        IN  [key |-> times[lens[i]], times |-> times]]

FileLens ==
    UNION {{l \in [1 .. n -> 1 .. MaxSnaps] : SumTo(l, n) <= MaxSnaps} : n \in 1 .. MaxFiles}

\* The time of the last snapshot of the last file.
LastTime(files) == files[Len(files)].key

\* An exception leaves find_time_in_files.
FindRaised == [raised |-> TRUE, ref_file |-> 0, it |-> 0, delta_t |-> 0]

FindFound(ref_file, it, delta_t) ==
    [raised |-> FALSE, ref_file |-> ref_file, it |-> it, delta_t |-> delta_t]

RECURSIVE FindLoop(_, _, _)
\* The "while True" loop of find_time_in_files; ref_file and it count from 0.
\* Every path that sets ref_file = None leaves delta_t = 0.0, a float, and
\* "delta_t.astype(int)" then raises; files[ref_file+1] raises past the end.
FindLoop(files, ref_time, ref_file) ==
    IF ref_file >= Len(files) \/ ref_file < 0 THEN FindRaised
    ELSE LET times == files[ref_file + 1].times
             eq == {k \in 1 .. Len(times) : times[k] = ref_time}
             ge == {k \in 1 .. Len(times) : times[k] >= ref_time}
         IN  IF Len(times) = 1
             THEN IF times[1] # ref_time THEN FindRaised
                  ELSE IF ref_file + 1 >= Len(files) THEN FindRaised
                  ELSE FindFound(ref_file, 0, files[ref_file + 2].times[1] - times[1])
             ELSE IF eq = {} /\ ge = {} THEN FindLoop(files, ref_time, ref_file + 1)
             ELSE LET it == SetMin(IF eq # {} THEN eq ELSE ge) - 1
                  IN  FindFound(ref_file, it,
                                IF it = Len(times) - 1
                                THEN times[it + 1] - times[it]
                                ELSE times[it + 2] - times[it + 1])

\* ref_file = np.where(file_times >= ref_time)[0][0], then the loop.
find_time_in_files(files, ref_time) ==
    LET cand == {i \in 1 .. Len(files) : files[i].key >= ref_time}
    IN  IF cand = {} THEN FindRaised ELSE FindLoop(files, ref_time, SetMin(cand) - 1)

\* list.insert(0, x), as a list that appends instead.
Insert0Appends(l, x) == Append(l, x)

\* list.insert(0, x)
Insert0(l, x) == <<x>> \o l

\* np.zeros_like(traj_pos)
ZerosLike(pos) == [q \in 1 .. Len(pos) |-> <<0, 0, 0>>]

\* extract_pos(data_to_pos(...)) and out[n_pvar:] for a point set.
PosOfAll(fld, pos) == [q \in 1 .. Len(pos) |-> PosAt(fld, pos[q])]

DataOfAll(fld, pos) == [q \in 1 .. Len(pos) |-> DataAt(fld, pos[q])]

\* trajectory_init: the four lists at the reference time.
trajectory_init(fld, time, traj_pos) ==
    [trajectory |-> Insert0(<<traj_pos>>, PosOfAll(fld, traj_pos)),
     data_val |-> <<DataOfAll(fld, traj_pos)>>,
     traj_error |-> Insert0(<<ZerosLike(traj_pos)>>, ZerosLike(traj_pos)),
     traj_times |-> <<time>>]

\* back_trajectory_step: the four lists after one backward step.
back_trajectory_step(fld, time, ls) ==
    LET traj_pos == ls.trajectory[1]
    IN  [trajectory |-> Insert0(ls.trajectory, PosOfAll(fld, traj_pos)),
         data_val |-> Insert0(ls.data_val, DataOfAll(fld, traj_pos)),
         traj_error |-> Insert0(ls.traj_error, ZerosLike(traj_pos)),
         traj_times |-> Insert0(ls.traj_times, time)]

\* forward_trajectory_step: the outcomes of one forward step, each either an
\* exception or the four lists after the step.
forward_trajectory_step(fld, time, ls) ==
    {IF out.pc = "error"
     THEN [raised |-> TRUE, ls |-> ls]
     ELSE [raised |-> FALSE,
           ls |-> [trajectory |-> Append(ls.trajectory, out.new_pos),
                   data_val |-> Append(ls.data_val, out.new_data),
                   traj_error |-> Append(ls.traj_error, out.new_err),
                   traj_times |-> Append(ls.traj_times, time)]] :
        out \in FwdRun(FwdEntry(ls.trajectory, fld))}

\* list[1:], as the whole list.
RestKeepsFirst(l) == l

\* list[1:]
Rest(l) == SubSeq(l, 2, Len(l))

\* The point sets ref_func returns.
SeqPoints ==
    {<<<<10, 600, 100>>, <<(FNx - 1) * SCALE + 90, 600, (FNz - 1) * SCALE>>, <<550, 30, 0>>>>,
     <<<<10, 600, 100>>, <<550, 30, 0>>>>}

\* The position fields of a run: every snapshot holds the same displacement.
SeqFields == {FieldOf(<<1, 1, 1>>, <<0, 0, 0>>), FieldOf(<<1, 1, 1>>, <<30, -20, 0>>)}

\* The four lists of the state.
ListsOf(st) ==
    [trajectory |-> st.trajectory, data_val |-> st.data_val,
     traj_error |-> st.traj_error, traj_times |-> st.traj_times]

WithLists(st, ls) ==
    [st EXCEPT !.trajectory = ls.trajectory, !.data_val = ls.data_val,
               !.traj_error = ls.traj_error, !.traj_times = ls.traj_times]

\* A call of compute_trajectories before its first statement.  nback, nfwd,
\* origin_time, opened and ran_out record what the run did: the steps taken,
\* the time of the snapshot trajectory_init loaded, the last index used in
\* files[...] and the "Ran out of data." messages.
SeqEntry(files, start_time, ref_time, end_time, fld, points) ==
    [pc |-> "start", files |-> files, start_time |-> start_time,
     ref_time |-> ref_time, end_time |-> end_time, fld |-> fld, points |-> points,
     ref_file_number |-> 0, ref_time_index |-> 0, file_number |-> 0,
     time_index |-> 0, times |-> <<>>, trajectory |-> <<>>, data_val |-> <<>>,
     traj_error |-> <<>>, traj_times |-> <<>>, ref_index |-> 0,
     nback |-> 0, nfwd |-> 0, origin_time |-> 0, opened |-> 0, ran_out |-> 0,
     err |-> "", result |-> <<>>]

SeqInit ==
    /\ \E lens \in FileLens :
          LET files == FilesOf(lens)
              req == {k * TimeStep : k \in 0 .. Len(files) + MaxSnaps}
          IN  \E r \in 1 .. LastTime(files) + 1, s \in req, e \in req,
                 f \in SeqFields, p \in SeqPoints :
                 /\ s <= r /\ r <= e /\ e <= LastTime(files) + TimeStep
                 /\ seq = SeqEntry(files, s, r, e, f, p)
    /\ lab = Idle /\ fwd = Idle /\ mat = Idle /\ box = Idle
    /\ itp = Idle /\ uns = Idle

\* find_time_in_files, ref_func and trajectory_init.
SeqStart ==
    /\ seq.pc = "start"
    /\ LET f == find_time_in_files(seq.files, seq.ref_time)
       IN  seq' = IF f.raised
                  THEN [seq EXCEPT !.pc = "error", !.err = "find_time_in_files"]
                  ELSE LET times == seq.files[f.ref_file + 1].times
                           time == times[f.it + 1]
                       IN  WithLists([seq EXCEPT !.pc = "back",
                                                 !.ref_file_number = f.ref_file,
                                                 !.ref_time_index = f.it,
                                                 !.file_number = f.ref_file,
                                                 !.time_index = f.it,
                                                 !.times = times,
                                                 !.opened = f.ref_file,
                                                 !.origin_time = time,
                                                 !.ref_index = 0],
                                     trajectory_init(seq.fld, time, seq.points))
    /\ UNCHANGED <<lab, fwd, mat, box, itp, uns>>

\* The condition of the backward loop, with >= for >.
BackCondInclusive(st) == st.traj_times[1] >= st.start_time /\ st.file_number >= 0

\* The condition of the backward loop.
BackCond(st) == st.traj_times[1] > st.start_time /\ st.file_number >= 0

\* One iteration of the backward loop.
SeqBack ==
    /\ seq.pc = "back"
    /\ BackCond(seq)
    /\ LET ti == seq.time_index - 1
           fn == seq.file_number - 1
       IN  seq' = IF ti >= 0
                  THEN WithLists([seq EXCEPT !.time_index = ti,
                                             !.ref_index = seq.ref_index + 1,
                                             !.nback = seq.nback + 1],
                                 back_trajectory_step(seq.fld, seq.times[ti + 1],
                                                      ListsOf(seq)))
                  ELSE IF fn < 0
                  THEN [seq EXCEPT !.time_index = ti, !.file_number = fn,
                                   !.ran_out = seq.ran_out + 1]
                  ELSE [seq EXCEPT !.file_number = fn, !.opened = fn,
                                   !.times = seq.files[fn + 1].times,
                                   !.time_index = Len(seq.files[fn + 1].times)]
    /\ UNCHANGED <<lab, fwd, mat, box, itp, uns>>

\* The end of the backward loop without the return to the reference file
\* and index.
SeqTurnStaysBack ==
    /\ seq.pc = "back"
    /\ ~BackCond(seq)
    /\ seq' = [seq EXCEPT !.pc = "fwd",
                          !.file_number = IF seq.file_number < 0 THEN 0 ELSE seq.file_number,
                          !.time_index = IF seq.time_index < 0 THEN 0 ELSE seq.time_index]
    /\ UNCHANGED <<lab, fwd, mat, box, itp, uns>>

\* The end of the backward loop: "Back to reference time for forward
\* trajectories."
SeqTurn ==
    /\ seq.pc = "back"
    /\ ~BackCond(seq)
    /\ seq' = [seq EXCEPT !.pc = "fwd",
                          !.file_number = seq.ref_file_number,
                          !.time_index = seq.ref_time_index,
                          !.times = seq.files[seq.ref_file_number + 1].times,
                          !.opened = seq.ref_file_number]
    /\ UNCHANGED <<lab, fwd, mat, box, itp, uns>>

\* The condition of the forward loop.
FwdCond(st) == st.traj_times[Len(st.traj_times)] < st.end_time /\ st.file_number >= 0

\* One iteration of the forward loop.
SeqForward ==
    /\ seq.pc = "fwd"
    /\ FwdCond(seq)
    /\ LET ti == seq.time_index + 1
           fn == seq.file_number + 1
       IN  IF ti < Len(seq.times)
           THEN \E out \in forward_trajectory_step(seq.fld, seq.times[ti + 1], ListsOf(seq)) :
                   seq' = IF out.raised
                          THEN [seq EXCEPT !.time_index = ti, !.pc = "error",
                                           !.err = "forward_trajectory_step"]
                          ELSE WithLists([seq EXCEPT !.time_index = ti,
                                                     !.nfwd = seq.nfwd + 1], out.ls)
           ELSE seq' = IF fn = Len(seq.files)
                       THEN [seq EXCEPT !.time_index = ti, !.file_number = fn,
                                        !.ran_out = seq.ran_out + 1]
                       ELSE IF fn > Len(seq.files)
                       THEN [seq EXCEPT !.time_index = ti, !.file_number = fn,
                                        !.opened = fn, !.pc = "error",
                                        !.err = "files[file_number]"]
                       ELSE [seq EXCEPT !.file_number = fn, !.opened = fn,
                                        !.times = seq.files[fn + 1].times,
                                        !.time_index = -1]
    /\ UNCHANGED <<lab, fwd, mat, box, itp, uns>>

\* The end of the forward loop: reshape the lists and return.
SeqReturn ==
    /\ seq.pc = "fwd"
    /\ ~FwdCond(seq)
    /\ seq' = [seq EXCEPT !.pc = "returned",
                          !.result = [data_val |-> seq.data_val,
                                      trajectory |-> Rest(seq.trajectory),
                                      traj_error |-> Rest(seq.traj_error),
                                      traj_times |-> seq.traj_times,
                                      ref_index |-> seq.ref_index]]
    /\ UNCHANGED <<lab, fwd, mat, box, itp, uns>>

SeqNext == SeqStart \/ SeqBack \/ SeqTurn \/ SeqForward \/ SeqReturn

SpecSeq == SeqInit /\ [][SeqNext]_vars

\* C2: when end_time lies beyond the last time of the last file, the forward
\* loop ends after the last snapshot: no index outside the file list is used
\* in files[...], no exception leaves the loop for want of data, and once
\* "Ran out of data." is reported the loop takes no further iteration.
C2_ForwardExhaustionReturns ==
    (seq.pc \in {"fwd", "error", "returned"} /\ seq.end_time > LastTime(seq.files)) =>
        /\ seq.opened \in 0 .. Len(seq.files) - 1
        /\ seq.err # "files[file_number]"
        /\ (seq.pc = "fwd" /\ seq.file_number = Len(seq.files)) => ~FwdCond(seq)

\* The times of all snapshots of all files.
AllTimes(files) == UNION {{files[i].times[k] : k \in 1 .. Len(files[i].times)} :
                             i \in 1 .. Len(files)}

\* C9: in the result of compute_trajectories index 0 is the earliest time,
\* ref_index is the number of backward steps taken, traj_times[ref_index] is
\* the reference time (the time of the snapshot integration started from,
\* which is ref_time when a file holds ref_time), trajectory[ref_index] is
\* the point set of ref_func, and traj_error is zero up to ref_index.
C9_RefIndexMarksReference ==
    seq.pc = "returned" =>
        LET r == seq.result
        IN  /\ \A k \in 2 .. Len(r.traj_times) : r.traj_times[1] < r.traj_times[k]
            /\ r.ref_index = seq.nback
            /\ r.ref_index + 1 <= Len(r.traj_times)
            /\ r.traj_times[r.ref_index + 1] = seq.origin_time
            /\ (seq.ref_time \in AllTimes(seq.files) =>
                    r.traj_times[r.ref_index + 1] = seq.ref_time)
            /\ r.trajectory[r.ref_index + 1] = seq.points
            /\ \A k \in 1 .. r.ref_index + 1 : r.traj_error[k] = ZerosLike(seq.points)

\* C9 witness: a run that took backward and forward steps across a file
\* boundary and returned.
C9_Witness ==
    /\ seq.pc = "returned"
    /\ seq.nback >= 2
    /\ seq.nfwd >= 1
    /\ Len(seq.files) >= 2
    /\ seq.result.ref_index = 2

\* The time at which the backward loop has to stop: the latest snapshot time
\* <= start_time, or the earliest time of the first file when start_time
\* precedes it.
BackStop(files, start_time) ==
    LET upto == {t \in AllTimes(files) : t <= start_time}
    IN  IF upto = {} THEN files[1].times[1] ELSE SetMax(upto)

KeyedFrom(files, ref_time) == {i \in 0 .. Len(files) - 1 : files[i + 1].key >= ref_time}

\* The indices, counted from 0, of the times >= ref_time in file i.
NotBefore(files, i, ref_time) ==
    {k \in 0 .. Len(files[i + 1].times) - 1 : files[i + 1].times[k + 1] >= ref_time}

\* C12: when the selected file holds no snapshot at ref_time,
\* find_time_in_files resolves to the first index of the first file, from the
\* selected one on, that holds a time >= ref_time, whether the files hold one
\* snapshot or several; when no file resolves the time the caller gets an
\* error and no trajectory is built.
C12_AbsentTimeFallsBackToNext ==
    (seq.pc # "start" /\ seq.ref_time \notin AllTimes(seq.files)) =>
        LET sel == KeyedFrom(seq.files, seq.ref_time)
            res == {i \in sel : NotBefore(seq.files, i, seq.ref_time) # {}}
        IN  IF res = {}
            THEN seq.pc = "error" /\ seq.err = "find_time_in_files" /\ seq.trajectory = <<>>
            ELSE /\ seq.err # "find_time_in_files"
                 /\ seq.ref_file_number = SetMin(res)
                 /\ seq.ref_time_index = SetMin(NotBefore(seq.files, SetMin(res), seq.ref_time))

\* The list of times tt is a run of consecutive snapshots of the
\* concatenated timeline of the files: each entry is the time of a snapshot,
\* and each entry after the first is the next snapshot after the entry
\* before it.
ConsecutiveRun(files, tt) ==
    \A k \in 1 .. Len(tt) :
        /\ tt[k] \in AllTimes(files)
        /\ k > 1 => /\ tt[k - 1] < tt[k]
                    /\ ~\E u \in AllTimes(files) : tt[k - 1] < u /\ u < tt[k]

\* The times of the trajectory are consecutive snapshots, with the reference
\* snapshot after the backward steps and before the forward steps.
TimesInOrder ==
    /\ (seq.pc \in {"back", "fwd", "returned"}) =>
           /\ ConsecutiveRun(seq.files, seq.traj_times)
           /\ Len(seq.traj_times) = seq.nback + 1 + seq.nfwd
           /\ seq.traj_times[seq.nback + 1] = seq.origin_time
    /\ (seq.pc = "back") => (seq.nfwd = 0)
    /\ (seq.pc = "returned") => (seq.result.traj_times = seq.traj_times)

\* C24: the times of the trajectory, during the run and in the result, are
\* a strictly increasing run of consecutive snapshots of the concatenated
\* timeline; no forward step is taken during the backward phase and no
\* backward step once the forward phase has begun; the entry after the
\* reference entry is the snapshot next after the reference snapshot.
C24_TimesAreConsecutiveSnapshots ==
    /\ []TimesInOrder
    /\ [][(seq.pc \in {"fwd", "returned", "error"}) =>
              (seq'.pc # "back" /\ seq'.nback = seq.nback)]_vars

\* The file, counted from 0, that holds the snapshot at time t.
FileOfTime(files, t) ==
    CHOOSE i \in 0 .. Len(files) - 1 :
        \E k \in 1 .. Len(files[i + 1].times) : files[i + 1].times[k] = t

\* C24 witness: a run has returned whose backward steps reached a file
\* before the reference file and whose forward steps reached a file after it.
C24_Witness ==
    /\ seq.pc = "returned"
    /\ seq.nback >= 1
    /\ seq.nfwd >= 2
    /\ FileOfTime(seq.files, seq.result.traj_times[1]) < seq.ref_file_number
    /\ FileOfTime(seq.files, seq.result.traj_times[Len(seq.result.traj_times)])
           > seq.ref_file_number

\* trajectory and traj_error hold one entry more than traj_times and
\* data_val; the returned arrays have the same number of time steps, and up
\* to the reference entry each position is the position field of the next
\* entry's snapshot sampled at the next entry, with the data sampled at the
\* entry itself.
ListsAligned ==
    /\ (seq.pc \in {"back", "fwd", "returned"}) =>
           /\ Len(seq.trajectory) = Len(seq.traj_times) + 1
           /\ Len(seq.traj_error) = Len(seq.traj_times) + 1
           /\ Len(seq.data_val) = Len(seq.traj_times)
           /\ Len(seq.traj_times) = seq.nback + 1 + seq.nfwd
    /\ (seq.pc = "returned") =>
           LET r == seq.result
               nt == Len(r.traj_times)
           IN  /\ Len(r.trajectory) = nt /\ Len(r.traj_error) = nt /\ Len(r.data_val) = nt
               /\ \A k \in 1 .. nt :
                     /\ r.trajectory[k] = seq.trajectory[k + 1]
                     /\ r.traj_error[k] = seq.traj_error[k + 1]
                     /\ Len(r.trajectory[k]) = Len(seq.points)
                     /\ Len(r.data_val[k]) = Len(seq.points)
               /\ \A k \in 1 .. r.ref_index + 1 :
                     r.data_val[k] = DataOfAll(seq.fld, r.trajectory[k])
               /\ \A k \in 1 .. r.ref_index :
                     r.trajectory[k] = PosOfAll(seq.fld, r.trajectory[k + 1])

\* The list m is the list l with one entry put in front of it (front) or
\* after it.
Grown(l, m, front) ==
    /\ Len(m) = Len(l) + 1
    /\ \A k \in 1 .. Len(l) : m[IF front THEN k + 1 ELSE k] = l[k]

\* Each of the four lists of the next state is the list of the state with
\* one more entry.
OneMore(st, nx, front) ==
    /\ Grown(st.trajectory, nx.trajectory, front)
    /\ Grown(st.data_val, nx.data_val, front)
    /\ Grown(st.traj_error, nx.traj_error, front)
    /\ Grown(st.traj_times, nx.traj_times, front)

\* C25: trajectory and traj_error always hold one entry more than traj_times
\* and data_val; a backward step puts exactly one entry in front of each of
\* the four lists and a forward step exactly one after each, every other
\* iteration leaves the lists alone and no step changes an existing entry;
\* the returned arrays have the same number of time steps and entry k of each
\* belongs to the same snapshot.
C25_ListsGrowInStep ==
    /\ []ListsAligned
    /\ [][(seq.pc \in {"back", "fwd"}) =>
              IF seq'.nback = seq.nback + 1 THEN OneMore(seq, seq', TRUE)
              ELSE IF seq'.nfwd = seq.nfwd + 1 THEN OneMore(seq, seq', FALSE)
              ELSE ListsOf(seq') = ListsOf(seq)]_vars

\* C25 witness: a run that took one backward step and two forward steps has
\* returned four time steps.
C25_Witness ==
    /\ seq.pc = "returned"
    /\ seq.nback = 1
    /\ seq.nfwd = 2
    /\ Len(seq.result.trajectory) = 4
    /\ Len(seq.result.data_val) = 4

----------------------------------------------------------------------------
(* Trajectory_Family: matching_object_list, matching_object_list_summary,   *)
(* refine_object_overlap and find_super_objects                             *)

\* Bounds: the trajectory sets of a family, the objects of a set and the
\* horizontal grid.
MaxFamily == 3
MaxObjs == 2
MNx == 2
MNy == 2

\* overlap_thresh = 0.02, in percent.
overlap_thresh == 2

\* Element i of a Python list or array axis (indices count from 0).
At(s, i) == s[i + 1]

\* The grid cells that hold in-object points.
CellA == <<0, 0, 0>>

CellB == <<1, 1, 0>>

\* An object of a trajectory set, as in_obj_func sees it: the cells of its
\* in-object points and the times at which it has any ("always", "never",
\* or "late": at the last time of the set only).  The object variable has
\* its largest mean at the reference time for an "always" object and at the
\* last time for a "late" one.
ObjProfiles ==
    {[cells |-> {CellA}, alive |-> "always"],
     [cells |-> {CellA, CellB}, alive |-> "always"],
     [cells |-> {}, alive |-> "never"],
     [cells |-> {CellA, CellB}, alive |-> "late"]}

\* ref and ntimes of a trajectory set: one forward step after the reference
\* time and no or one backward step before it.
TrajShapes == {[ref |-> 0, ntimes |-> 2], [ref |-> 1, ntimes |-> 3]}

\* The in-object points (as rounded cells) of an object at time index t.
InCells(prof, t, shape) ==
    IF prof.alive = "always" \/ (prof.alive = "late" /\ t = shape.ntimes - 1)
    THEN prof.cells
    ELSE {}

\* The mean of the object variable over the in-object points at time index t.
ObjVar(prof, t, shape) ==
    IF prof.alive = "late"
    THEN 2
    ELSE IF t = shape.ref THEN 2 ELSE 1

\* np.amin / np.amax of the in-object positions: <<min corner, max corner>>.
BoxOf(cells) ==
    <<[c \in 1 .. 3 |-> SetMin({p[c] : p \in cells})],
      [c \in 1 .. 3 |-> SetMax({p[c] : p \in cells})]>>

\* An entry of np.zeros(box_shape).
ZeroBox == <<<<0, 0, 0>>, <<0, 0, 0>>>>

\* self.max_at_ref, selecting at time index 0 instead of index ref.
MaxAtStart(objvar_mean, ref) ==
    LET nobj == Len(objvar_mean[1])
        top(o) == SetMax({objvar_mean[t][o] : t \in 1 .. Len(objvar_mean)})
        w == Where([o \in 1 .. nobj |-> objvar_mean[1][o] = top(o)])
    IN  [k \in 1 .. Len(w) |-> w[k] - 1]

\* self.max_at_ref: the objects whose objvar_mean at index ref equals its
\* maximum over all times, in increasing order.
MaxAtRef(objvar_mean, ref) ==
    LET nobj == Len(objvar_mean[1])
        top(o) == SetMax({objvar_mean[t][o] : t \in 1 .. Len(objvar_mean)})
        w == Where([o \in 1 .. nobj |-> objvar_mean[ref + 1][o] = top(o)])
    IN  [k \in 1 .. Len(w) |-> w[k] - 1]

\* Trajectories.__init__ after compute_trajectories: compute_traj_boxes and
\* max_at_ref.  Arrays are indexed [time][object].
Trajectories(shape, profs) ==
    LET times == 1 .. shape.ntimes
        objs == 1 .. Len(profs)
        in_cells == [t \in times |-> [o \in objs |-> InCells(profs[o], t - 1, shape)]]
        num_in_obj == [t \in times |-> [o \in objs |-> Cardinality(in_cells[t][o])]]
        objvar_mean == [t \in times |-> [o \in objs |->
                           IF num_in_obj[t][o] > 0 THEN ObjVar(profs[o], t - 1, shape)
                           ELSE 0]]
    IN  [ref |-> shape.ref, ntimes |-> shape.ntimes, nobjects |-> Len(profs),
         nx |-> MNx, ny |-> MNy, in_cells |-> in_cells,
         num_in_obj |-> num_in_obj, objvar_mean |-> objvar_mean,
         in_obj_box |-> [t \in times |-> [o \in objs |->
                            IF num_in_obj[t][o] > 0 THEN BoxOf(in_cells[t][o])
                            ELSE ZeroBox]],
         max_at_ref |-> MaxAtRef(objvar_mean, shape.ref)]

\* np.arange(0, n)
Arange(n) == [k \in 1 .. n |-> k - 1]

RECURSIVE ValidOnly(_, _)
\* corr_box[valid] with valid = (num_in_obj[match_time, corr_box] > 0), for
\* the 1-based positions found by box_overlap_with_wrap: the object ids
\* (positions less one) that have in-object points.
ValidOnly(found, num) ==
    IF found = <<>> THEN <<>>
    ELSE (IF num[Head(found)] > 0 THEN <<Head(found) - 1>> ELSE <<>>)
         \o ValidOnly(Tail(found), num)

\* match_time = match_traj.ref + (t_off + 1) - it_back
MatchTime(fam, master_ref, t_off, it_back) ==
    At(fam, master_ref - (t_off + 1)).ref + (t_off + 1) - it_back

\* corr_box as the innermost "if" assigns it: the objects of match_traj whose
\* in_obj box overlaps b_test and that have in-object points at match_time.
CorrBox(traj, match_traj, ref_time, match_time, iobj) ==
    ValidOnly(box_overlap_with_wrap(At(At(traj.in_obj_box, ref_time), iobj),
                                    At(match_traj.in_obj_box, match_time),
                                    traj.nx, traj.ny),
              At(match_traj.num_in_obj, match_time))

\* The local variables of matching_object_list after "corr_box = ..." and
\* the append of the iteration.
MolAssigned(acc, cb) ==
    [acc EXCEPT !.bound = TRUE, !.corr_box = cb, !.entries = Append(@, cb)]

\* The append of an iteration that assigns nothing: the value corr_box
\* holds, or a NameError while it is unbound.
MolKept(acc) ==
    IF acc.bound THEN [acc EXCEPT !.entries = Append(@, acc.corr_box)]
    ELSE [acc EXCEPT !.raised = TRUE]

\* The body of the innermost loop of matching_object_list.
MolBody(traj, match_traj, ref_time, match_time, iobj, acc) ==
    IF /\ At(At(traj.num_in_obj, ref_time), iobj) > 0
       /\ match_time >= 0
       /\ match_time < match_traj.ntimes
    THEN MolAssigned(acc, CorrBox(traj, match_traj, ref_time, match_time, iobj))
    ELSE MolKept(acc)

RECURSIVE MolLoop(_, _, _, _, _)
\* The three nested loops of matching_object_list from their k-th iteration
\* (in loop order: t_off, it_back, iobj).  corr_box is one local variable of
\* the method: unbound until first assigned, then kept across iterations.
MolLoop(fam, master_ref, select, k, acc) ==
    LET nsel == Len(select)
        nback == At(fam, master_ref).ref + 1
        t_off == k \div (nback * nsel)
        it_back == (k \div nsel) % nback
    IN  IF acc.raised \/ k >= master_ref * nback * nsel THEN acc
        ELSE MolLoop(fam, master_ref, select, k + 1,
                     MolBody(At(fam, master_ref), At(fam, master_ref - (t_off + 1)),
                             At(fam, master_ref).ref - it_back,
                             MatchTime(fam, master_ref, t_off, it_back),
                             At(select, k % nsel), acc))

\* mol[t_off][it_back][i] from the entries appended in loop order.
MolResult(r, master_ref, nback, nsel) ==
    [raised |-> r.raised,
     mol |-> IF r.raised THEN <<>>
             ELSE [t \in 1 .. master_ref |-> [b \in 1 .. nback |-> [i \in 1 .. nsel |->
                      r.entries[((t - 1) * nback + (b - 1)) * nsel + i]]]]]

\* matching_object_list: mol[t_off][it_back][i], or the NameError of an
\* append of corr_box before its first assignment.
matching_object_list(fam, master_ref, select) ==
    MolResult(MolLoop(fam, master_ref, select, 0,
                      [bound |-> FALSE, corr_box |-> <<>>, raised |-> FALSE,
                       entries |-> <<>>]),
              master_ref, At(fam, master_ref).ref + 1, Len(select))

\* The cell ids x + nx*(y + ny*z) of a set of rounded positions.
CellIds(traj, cells) == {p[1] + traj.nx * (p[2] + traj.ny * p[3]) : p \in cells}

\* extract_obj_as1Dint: the cell ids of the in-object points of one object
\* at index tr_time = traj.ref - time; an index past the end of the time
\* axis raises, a negative one counts from the end.
extract_obj_as1Dint(traj, tr_time, obj) ==
    IF tr_time >= traj.ntimes \/ tr_time < -traj.ntimes
    THEN [raised |-> TRUE, ids |-> {}]
    ELSE [raised |-> FALSE,
          ids |-> CellIds(traj, At(At(traj.in_cells, tr_time % traj.ntimes), obj))]

\* max_size and intersection of refine_object_overlap, as num / den.
Intersection(tr1D, trm1D, max_size) ==
    [raised |-> tr1D.raised \/ trm1D.raised,
     num |-> IF max_size > 0 THEN Cardinality(tr1D.ids \cap trm1D.ids) ELSE 0,
     den |-> IF max_size > 0 THEN max_size ELSE 1]

IntersectionOf(tr1D, trm1D) ==
    Intersection(tr1D, trm1D, SetMax({Cardinality(tr1D.ids), Cardinality(trm1D.ids)}))

\* refine_object_overlap
refine_object_overlap(fam, t_off, time, obj, mobj, master_ref) ==
    IntersectionOf(extract_obj_as1Dint(At(fam, master_ref),
                                       At(fam, master_ref).ref - time, obj),
                   extract_obj_as1Dint(At(fam, master_ref - (t_off + 1)),
                                       At(fam, master_ref - (t_off + 1)).ref
                                           - (time - (t_off + 1)), mobj))

\* inter > overlap_thresh
AboveThresh(inter) == 100 * inter.num > overlap_thresh * inter.den

\* int(round(inter*100, 0)): round half to even.
RoundPct(inter) ==
    LET q == (100 * inter.num) \div inter.den
        r == (100 * inter.num) % inter.den
    IN  IF 2 * r < inter.den THEN q
        ELSE IF 2 * r > inter.den THEN q + 1
        ELSE IF q % 2 = 0 THEN q ELSE q + 1

\* int(inter*100 + 0.5)
HalfUpPct(inter) == (200 * inter.num + inter.den) \div (2 * inter.den)

\* 'Linked' if the object is in max_at_ref of its set, otherwise 'Same'.
OType(match_traj, obj) ==
    IF obj \in SeqRange(match_traj.max_at_ref) THEN "Linked" ELSE "Same"

\* The pairs <<it_back, obj>> of one it_back.
PairsOf(it_back, objs) == [k \in 1 .. Len(objs) |-> <<it_back, objs[k]>>]

RECURSIVE SummaryCands(_, _, _, _, _)
\* The pairs <<it_back, obj>> the loops of matching_object_list_summary
\* visit for one t_off and one position i of select, from it_back on, in
\* order: those of the it_back with 0 <= match_time < len(self.family).
SummaryCands(fam, master_ref, matching_objects, toff_i, it_back) ==
    IF it_back >= Len(matching_objects) THEN <<>>
    ELSE (IF /\ MatchTime(fam, master_ref, toff_i[1], it_back) >= 0
             /\ MatchTime(fam, master_ref, toff_i[1], it_back) < Len(fam)
          THEN PairsOf(it_back, At(At(matching_objects, it_back), toff_i[2]))
          ELSE <<>>)
         \o SummaryCands(fam, master_ref, matching_objects, toff_i, it_back + 1)

\* The lists after "inter = self.refine_object_overlap(...)" and the test of
\* the threshold.
SummaryStep(acc, obj, match_traj, inter) ==
    IF inter.raised THEN [acc EXCEPT !.raised = TRUE]
    ELSE IF AboveThresh(inter)
    THEN [acc EXCEPT !.list = Append(@, <<obj, OType(match_traj, obj), RoundPct(inter)>>)]
    ELSE acc

\* The objects of objlist.
Listed(acc) == {acc.list[k][1] : k \in 1 .. Len(acc.list)}

RECURSIVE SummaryLoop(_, _, _, _, _)
\* "for obj in matching_objects[it_back][i]" over the pairs of cands: objlist,
\* otypelist and interlist as one list of triples.
SummaryLoop(fam, master_ref, toff_iobj, cands, acc) ==
    IF acc.raised \/ cands = <<>> THEN acc
    ELSE SummaryLoop(fam, master_ref, toff_iobj, Tail(cands),
                     IF Head(cands)[2] \in Listed(acc) THEN acc
                     ELSE SummaryStep(acc, Head(cands)[2],
                                      At(fam, master_ref - (toff_iobj[1] + 1)),
                                      refine_object_overlap(fam, toff_iobj[1],
                                                            Head(cands)[1], toff_iobj[2],
                                                            Head(cands)[2], master_ref)))

\* A table [t][i] of loop results as the value returned, or an exception.
TableResult(table) ==
    [raised |-> \E t \in 1 .. Len(table) : \E i \in 1 .. Len(table[t]) : table[t][i].raised,
     value |-> [t \in 1 .. Len(table) |-> [i \in 1 .. Len(table[t]) |-> table[t][i].list]]]

\* The loops of matching_object_list_summary, given the result m of its
\* call of matching_object_list.
SummaryOf(fam, master_ref, select, m) ==
    IF m.raised THEN [raised |-> TRUE, value |-> <<>>]
    ELSE TableResult([t \in 1 .. master_ref |-> [i \in 1 .. Len(select) |->
             SummaryLoop(fam, master_ref, <<t - 1, select[i]>>,
                         SummaryCands(fam, master_ref, m.mol[t], <<t - 1, i - 1>>, 0),
                         [raised |-> FALSE, list |-> <<>>])]])

\* matching_object_list_summary: value[t_off][i], or an exception.
matching_object_list_summary(fam, master_ref, select) ==
    SummaryOf(fam, master_ref, select, matching_object_list(fam, master_ref, select))

\* objlist after the tests of one obj in step_obj_back.
LinkStep(acc, entry, linked, inter) ==
    IF inter.raised THEN [acc EXCEPT !.raised = TRUE]
    ELSE IF AboveThresh(inter) /\ linked
    THEN [acc EXCEPT !.list = Append(@, <<entry[1], entry[2], HalfUpPct(inter)>>)]
    ELSE acc

RECURSIVE LinkLoop(_, _, _, _, _)
\* The loop "for obj in matching_objects[it_back][i]" of step_obj_back.
LinkLoop(fam, master_ref, iobj, objs, acc) ==
    IF acc.raised \/ objs = <<>> THEN acc
    ELSE LinkLoop(fam, master_ref, iobj, Tail(objs),
                  LinkStep(acc, <<master_ref - 1, Head(objs)>>,
                           Head(objs) \in SeqRange(At(fam, master_ref - 1).max_at_ref),
                           refine_object_overlap(fam, 0, 0, iobj, Head(objs), master_ref)))

\* The loop of step_obj_back, given the result m of its call of
\* matching_object_list.
StepOf(fam, master_ref, objs, m) ==
    IF m.raised THEN [raised |-> TRUE, value |-> <<>>]
    ELSE TableResult(<<[i \in 1 .. Len(objs) |->
             LinkLoop(fam, master_ref, objs[i], m.mol[1][1][i],
                      [raised |-> FALSE, list |-> <<<<master_ref, objs[i], 100>>>>])]>>)

\* step_obj_back(master_ref, objs): found_super_objs as value[1], or an
\* exception.
step_obj_back(fam, master_ref, objs) ==
    StepOf(fam, master_ref, objs, matching_object_list(fam, master_ref, objs))

\* np.where(id == incomplete_object_ids)[0][0], counted from 1.
FirstIndex(ids, id) == SetMin({k \in 1 .. Len(ids) : ids[k] = id})

\* Options 3 and 4: the chain goes on at the next level.
SupContinue(st, chain, j, known) ==
    [st EXCEPT !.incomplete_objects = IF known THEN [@ EXCEPT ![j] = chain] ELSE @,
               !.new_incomplete_objects = Append(@, chain),
               !.new_incomplete_object_ids = Append(@, chain[Len(chain)][2])]

\* The body of "for i, obj in enumerate(sup_obj)": the four options.
SupBody(st, obj, known, j) ==
    IF Len(obj) = 1
    THEN [st EXCEPT !.super_objects =
                        Append(@, IF known THEN st.incomplete_objects[j] ELSE obj)]
    ELSE SupContinue(st, IF known THEN Append(st.incomplete_objects[j], obj[2]) ELSE obj,
                     j, known)

RECURSIVE SupLoop(_, _)
SupLoop(sup_obj, st) ==
    IF sup_obj = <<>> THEN st
    ELSE SupLoop(Tail(sup_obj),
                 SupBody(st, Head(sup_obj),
                         Head(sup_obj)[1][2] \in SeqRange(st.incomplete_object_ids),
                         FirstIndex(st.incomplete_object_ids, Head(sup_obj)[1][2])))

\* The end of one iteration of the loop over newref.
SupEnd(s1, next_level_objs) ==
    [s1 EXCEPT !.incomplete_object_ids = s1.new_incomplete_object_ids,
               !.incomplete_objects = s1.new_incomplete_objects,
               !.select = next_level_objs]

\* One iteration of the loop over newref, given the result of step_obj_back.
SuperBody(fam, newref, st, sup_obj) ==
    IF sup_obj.raised THEN [st EXCEPT !.raised = TRUE]
    ELSE SupEnd(SupLoop(sup_obj.value[1],
                        [st EXCEPT !.new_incomplete_objects = <<>>,
                                   !.new_incomplete_object_ids = <<>>]),
                At(fam, newref - 1).max_at_ref)

RECURSIVE SuperLoop(_, _, _)
\* "for newref in range(master_ref, 0, -1)" from newref on.
SuperLoop(fam, newref, st) ==
    IF st.raised \/ newref <= 0 THEN st
    ELSE SuperLoop(fam, newref - 1,
                   SuperBody(fam, newref, st, step_obj_back(fam, newref, st.select)))

\* len_sup
LenSup(super_objects) == [k \in 1 .. Len(super_objects) |-> Len(super_objects[k])]

\* The statements of find_super_objects after the loop over newref.
SuperResult(st) ==
    IF st.raised THEN [raised |-> TRUE, value |-> <<>>, len_sup |-> <<>>]
    ELSE [raised |-> FALSE, value |-> st.super_objects \o st.incomplete_objects,
          len_sup |-> LenSup(st.super_objects \o st.incomplete_objects)]

\* find_super_objects: super_objects (value) and len_sup, or an exception.
find_super_objects(fam, master_ref) ==
    SuperResult(SuperLoop(fam, master_ref,
                          [raised |-> FALSE, select |-> At(fam, master_ref).max_at_ref,
                           super_objects |-> <<>>, incomplete_objects |-> <<>>,
                           incomplete_object_ids |-> <<>>,
                           new_incomplete_objects |-> <<>>,
                           new_incomplete_object_ids |-> <<>>]))

\* The object lists of a trajectory set.
ObjLists == UNION {[1 .. m -> ObjProfiles] : m \in 1 .. MaxObjs}

\* The shapes of the sets of a family of n sets with sequential reference
\* times: a later set has at least as many backward steps as an earlier one.
FamilyShapes(n) ==
    {s \in [1 .. n -> TrajShapes] : \A k \in 1 .. n - 1 : s[k].ref <= s[k + 1].ref}

\* Trajectory_Family.__init__: self.family.
Family(shapes, profs) == [k \in 1 .. Len(shapes) |-> Trajectories(shapes[k], profs[k])]

\* A family before a call of one of its methods; master_ref is the default,
\* the last set.
MatEntry(family) ==
    [pc |-> "ready", family |-> family, call |-> "", master_ref |-> Len(family) - 1,
     result |-> <<>>]

MatInit ==
    /\ \E n \in 1 .. MaxFamily :
          \E sh \in FamilyShapes(n), pr \in [1 .. n -> ObjLists] :
             mat = MatEntry(Family(sh, pr))
    /\ lab = Idle /\ seq = Idle /\ fwd = Idle /\ box = Idle
    /\ itp = Idle /\ uns = Idle

\* The state after a call: its name and what it returned or that it raised.
Returned(st, call, r) ==
    [st EXCEPT !.pc = IF r.raised THEN "error" ELSE "done", !.call = call, !.result = r]

\* A call of matching_object_list with the default arguments.
MatMatchingObjectList ==
    /\ mat.pc = "ready"
    /\ mat' = Returned(mat, "matching_object_list",
                       matching_object_list(mat.family, mat.master_ref,
                           Arange(At(mat.family, mat.master_ref).nobjects)))
    /\ UNCHANGED <<lab, seq, fwd, box, itp, uns>>

\* A call of matching_object_list_summary with the default arguments.
MatSummary ==
    /\ mat.pc = "ready"
    /\ mat' = Returned(mat, "matching_object_list_summary",
                       matching_object_list_summary(mat.family, mat.master_ref,
                           Arange(At(mat.family, mat.master_ref).nobjects)))
    /\ UNCHANGED <<lab, seq, fwd, box, itp, uns>>

\* A call of find_super_objects with the default arguments.
MatFindSuperObjects ==
    /\ mat.pc = "ready"
    /\ mat' = Returned(mat, "find_super_objects",
                       find_super_objects(mat.family, mat.master_ref))
    /\ UNCHANGED <<lab, seq, fwd, box, itp, uns>>

MatNext == MatMatchingObjectList \/ MatSummary \/ MatFindSuperObjects

SpecMatch == MatInit /\ [][MatNext]_vars

\* (traj.trajectory[...] + 0.5).astype(int) for a position with integer
\* coordinates: astype(int) truncates towards zero, so p + 0.5 becomes p for
\* p >= 0 and p + 1 for p < 0.
AsTypeInt(p) == [a \in 1 .. 3 |-> IF p[a] >= 0 THEN p[a] ELSE p[a] + 1]

\* tr1D of extract_obj_as1Dint for the in-object points at the positions pos
\* of a trajectory set on the nx x ny grid.
Tr1D(pos, nx, ny) ==
    CellIds([nx |-> nx, ny |-> ny], {AsTypeInt(pos[q]) : q \in 1 .. Len(pos)})

\* The cells of the objects compared by refine_object_overlap: up to three
\* points on either side of the x boundary of the declustered grid.
RefineSets ==
    {S \in SUBSET ({0, 1, UNx - 1} \X {UMaxY - 3, UMaxY - 2} \X {UMaxZ}) :
        Cardinality(S) \in 1 .. 3}

\* The positions Trajectories.__init__ stores for an object with the points
\* S: the output of unsplit_objects.
StoredPositions(S) ==
    {t[1] : t \in unsplit_objects(<<AsList(S)>>, [q \in 1 .. Cardinality(S) |-> 0], 1)}

\* A call of refine_object_overlap on two objects of two trajectory sets of
\* the family at the same time, every point of either in-object.
RefineInit ==
    /\ \E S \in RefineSets, T \in RefineSets :
          \E ps \in StoredPositions(S), pt \in StoredPositions(T) :
             mat = [pc |-> "refine", obj |-> ps, mobj |-> pt,
                    result |-> [raised |-> FALSE, num |-> 0, den |-> 1]]
    /\ lab = Idle /\ seq = Idle /\ fwd = Idle /\ box = Idle
    /\ itp = Idle /\ uns = Idle

\* refine_object_overlap: tr1D, trm1D, max_size, intersection.
MatRefine ==
    /\ mat.pc = "refine"
    /\ mat' = [mat EXCEPT
                  !.pc = "refined",
                  !.result = IntersectionOf(
                                 [raised |-> FALSE, ids |-> Tr1D(mat.obj, UNx, UNy)],
                                 [raised |-> FALSE, ids |-> Tr1D(mat.mobj, UNx, UNy)])]
    /\ UNCHANGED <<lab, seq, fwd, box, itp, uns>>

RefineNext == MatRefine

SpecRefine == RefineInit /\ [][RefineNext]_vars

\* The objects of the earlier set that have in-object points at the matching
\* time and whose in-object box is reported as overlapping the in-object box
\* of master object iobj at ref - it_back; none when the master object has no
\* in-object points then or the matching time is outside the earlier set.
BoxCandidates(fam, master_ref, t_off, it_back, iobj) ==
    LET traj == At(fam, master_ref)
        match_traj == At(fam, master_ref - (t_off + 1))
        ref_time == traj.ref - it_back
        match_time == MatchTime(fam, master_ref, t_off, it_back)
    IN  IF \/ At(At(traj.num_in_obj, ref_time), iobj) = 0
           \/ match_time < 0
           \/ match_time >= match_traj.ntimes
        THEN {}
        ELSE {o \in 0 .. match_traj.nobjects - 1 :
                 /\ At(At(match_traj.num_in_obj, match_time), o) > 0
                 /\ box_overlap_with_wrap(At(At(traj.in_obj_box, ref_time), iobj),
                                          <<At(At(match_traj.in_obj_box, match_time), o)>>,
                                          traj.nx, traj.ny) # <<>>}

\* C5: every entry mol[t_off][it_back][i] of matching_object_list holds
\* exactly the box-overlap candidates of master object i at that time; it is
\* empty when the master object has no in-object points or the matching time
\* lies outside the earlier set, and the call raises no exception.
C5_EntryIsOwnCandidateList ==
    (mat.call = "matching_object_list") =>
        /\ mat.pc = "done"
        /\ \A t_off \in 0 .. mat.master_ref - 1 :
              \A it_back \in 0 .. At(mat.family, mat.master_ref).ref :
                 \A i \in 0 .. At(mat.family, mat.master_ref).nobjects - 1 :
                    SeqRange(At(At(At(mat.result.mol, t_off), it_back), i))
                        = BoxCandidates(mat.family, mat.master_ref, t_off, it_back, i)

\* The fractional overlap of the in-object cells of master object iobj and of
\* object o of the earlier set at back time it_back exceeds overlap_thresh.
RefinedMatch(fam, master_ref, t_off, it_back, iobj, o) ==
    LET traj == At(fam, master_ref)
        match_traj == At(fam, master_ref - (t_off + 1))
        a == At(At(traj.in_cells, traj.ref - it_back), iobj)
        b == At(At(match_traj.in_cells, MatchTime(fam, master_ref, t_off, it_back)), o)
        m == SetMax({Cardinality(a), Cardinality(b)})
    IN  m > 0 /\ 100 * Cardinality(a \cap b) > overlap_thresh * m

\* C6: the summary of matching_object_list_summary lists for master object i
\* exactly the objects that are box-overlap candidates at some back time
\* whose matching time lies inside the earlier trajectory set and whose
\* refined overlap exceeds overlap_thresh, each once.
C6_SummaryListsEveryMatch ==
    (mat.call = "matching_object_list_summary" /\ mat.pc = "done") =>
        \A t_off \in 0 .. mat.master_ref - 1 :
           \A i \in 0 .. At(mat.family, mat.master_ref).nobjects - 1 :
              LET list == At(At(mat.result.value, t_off), i)
              IN  /\ {list[k][1] : k \in 1 .. Len(list)}
                       = {o \in 0 .. At(mat.family, mat.master_ref - (t_off + 1)).nobjects - 1 :
                             \E it_back \in 0 .. At(mat.family, mat.master_ref).ref :
                                /\ o \in BoxCandidates(mat.family, mat.master_ref,
                                                       t_off, it_back, i)
                                /\ RefinedMatch(mat.family, mat.master_ref,
                                                t_off, it_back, i, o)}
                  /\ \A k1, k2 \in 1 .. Len(list) : list[k1][1] = list[k2][1] => k1 = k2

\* C8: find_super_objects returns, for every object of the max_at_ref list
\* of the master set, exactly one super-object whose first entry is
\* (master_ref, object, 100).
C8_OneSuperObjectPerMasterObject ==
    (mat.call = "find_super_objects" /\ mat.pc = "done") =>
        \A o \in SeqRange(At(mat.family, mat.master_ref).max_at_ref) :
           Cardinality({k \in 1 .. Len(mat.result.value) :
                           mat.result.value[k][1] = <<mat.master_ref, o, 100>>}) = 1

\* The mean object variable of object o of a trajectory set attains its
\* maximum over all times at the reference index of the set.
PeaksAtRef(traj, o) ==
    \A t \in 0 .. traj.ntimes - 1 :
        At(At(traj.objvar_mean, t), o) <= At(At(traj.objvar_mean, traj.ref), o)

\* C15: every entry of the matching summary is classified 'Linked' exactly
\* when the mean object variable of the earlier object attains its maximum
\* over all times at the reference index of its own trajectory set, and
\* 'Same' otherwise.
C15_LinkedIffMaxAtOwnRef ==
    (mat.call = "matching_object_list_summary" /\ mat.pc = "done") =>
        \A t_off \in 0 .. mat.master_ref - 1 :
           \A i \in 0 .. At(mat.family, mat.master_ref).nobjects - 1 :
              LET list == At(At(mat.result.value, t_off), i)
                  own == At(mat.family, mat.master_ref - (t_off + 1))
              IN  \A k \in 1 .. Len(list) :
                     /\ list[k][2] \in {"Linked", "Same"}
                     /\ list[k][2] = "Linked" <=> PeaksAtRef(own, list[k][1])

\* C15 witness: a summary that holds a 'Linked' entry and a 'Same' entry
\* for one master object.
C15_Witness ==
    /\ mat.call = "matching_object_list_summary"
    /\ mat.pc = "done"
    /\ \E t_off \in 0 .. mat.master_ref - 1 :
          \E i \in 0 .. At(mat.family, mat.master_ref).nobjects - 1 :
             LET list == At(At(mat.result.value, t_off), i)
             IN  \E k1, k2 \in 1 .. Len(list) :
                    list[k1][2] = "Linked" /\ list[k2][2] = "Same"

\* The positions p and q denote the same cell of the periodic grid.
SameCell(p, q) == p[1] % UNx = q[1] % UNx /\ p[2] % UNy = q[2] % UNy /\ p[3] = q[3]

\* C23: in refine_object_overlap two points of the two compared objects get
\* the same id x + nx*(y + ny*z) exactly when their positions denote the same
\* cell of the periodic grid, also for positions that declustering moved
\* outside [0, nx); the returned fraction is in [0, 1].
C23_CellIdsMatchPeriodicCells ==
    mat.pc = "refined" =>
        /\ \A q \in 1 .. Len(mat.obj), r \in 1 .. Len(mat.mobj) :
              (Tr1D(<<mat.obj[q]>>, UNx, UNy) = Tr1D(<<mat.mobj[r]>>, UNx, UNy))
                  <=> SameCell(mat.obj[q], mat.mobj[r])
        /\ 0 <= mat.result.num /\ mat.result.num <= mat.result.den

====
